---- MODULE Spec2Model ----
(***************************************************************************)
(* State-machine models of the contracts of near-creative-engine.          *)
(*                                                                         *)
(* Every contract is an independent program with its own persistent        *)
(* storage, so each has its own state variable and its own specification   *)
(* (SpecSbt, SpecGov, SpecSol, SpecFvm, SpecSimple).  A call that panics   *)
(* (NEAR), returns Err (Anchor) or aborts (FVM) is rolled back by the host *)
(* runtime: the handler's action then leaves the contract's storage        *)
(* unchanged and only records the error in `result`.                       *)
(*                                                                         *)
(* Conventions                                                             *)
(*   - Option<T>:  None is << >>, Some(v) is <<v>>.                        *)
(*   - LookupMap / UnorderedMap / HashMap: a function whose DOMAIN is the  *)
(*     set of stored keys.                                                 *)
(*   - UnorderedSet / Vec: a sequence (insertion order), a set having no   *)
(*     duplicates.                                                         *)
(*   - f32 / f64 scores are carried in hundredths (0.7 is 70).             *)
(***************************************************************************)
EXTENDS Integers, Sequences, FiniteSets, TLC

VARIABLES
    now,        \* env::block_timestamp() / Clock::get().unix_timestamp
    result,     \* the last call: its method, caller, arguments and outcome
    contract,   \* contracts/src/lib_fixed.rs: Contract
    gov,        \* contracts/near/soulbound-ai-governance: SoulboundAIGovernance
    sol,        \* contracts/solana/biometric-nft: the BiometricNFT accounts
    fvm,        \* contracts/filecoin/biometric-nft-actor: the actor's state root
    simple,     \* near-wasm: SimpleNftContract
    ccai,       \* contracts/cross-chain-ai: CrossChainAIML
    solcc,      \* solana-program/cross-chain-ai: the program's accounts
    client      \* rust-client: the last call of a pure function and what it returned

vars == <<now, result, contract, gov, sol, fvm, simple, ccai, solcc, client>>

(***************************************************************************)
(* Bounds of the model.                                                    *)
(***************************************************************************)
MaxTime == 1

(***************************************************************************)
(* Shared helpers.                                                         *)
(***************************************************************************)
None == << >>
Some(v) == <<v>>

EmptyMap == [k \in {} |-> None]
Get(m, k) == IF k \in DOMAIN m THEN Some(m[k]) ELSE None
ContainsKey(m, k) == k \in DOMAIN m
Insert(m, k, v) == [x \in (DOMAIN m) \cup {k} |-> IF x = k THEN v ELSE m[x]]

Range(s) == {s[i] : i \in 1..Len(s)}
\* UnorderedSet::insert: appends the element unless it is already a member.
SetInsert(s, e) == IF e \in Range(s) THEN s ELSE Append(s, e)

Accounts == {"alice.near", "bob.near"}

NoCall == [op |-> "new", err |-> ""]

\* The host clock moves forward between calls.
Tick ==
    /\ now < MaxTime
    /\ now' = now + 1
    /\ result' = [op |-> "tick", err |-> ""]
    /\ UNCHANGED <<contract, gov, sol, fvm, simple, ccai, solcc, client>>

(***************************************************************************)
(* contracts/src/lib_fixed.rs: the NEAR soulbound NFT contract.            *)
(***************************************************************************)
SbtTokenIds == {"token1", "token2"}
SbtHashes == {"hash123", "hash456"}
SbtQualities == {50, 69, 70}
SbtEmotions ==
    { [primary_emotion |-> "Happy", confidence |-> 85, arousal |-> 60, valence |-> 80],
      [primary_emotion |-> "Calm", confidence |-> 40, arousal |-> 10, valence |-> 55] }

QUALITY_THRESHOLD == 70

SbtRest == <<gov, sol, fvm, simple, ccai, solcc, client>>

ContractNew(owner_id) ==
    [ owner_id |-> owner_id,
      tokens_per_owner |-> EmptyMap,
      tokens_by_id |-> EmptyMap,
      token_metadata_by_id |-> EmptyMap,
      biometric_data |-> EmptyMap,
      emotion_history |-> EmptyMap ]

\* Mutant: the owner's set is created afresh on every call.
internal_add_token_to_owner_Fresh(c, owner_id, token_id) ==
    [c EXCEPT !.tokens_per_owner = Insert(c.tokens_per_owner, owner_id, <<token_id>>)]

\* internal_add_token_to_owner: the owner's set, created when missing, gets the token.
internal_add_token_to_owner(c, owner_id, token_id) ==
    LET tokens_set == IF ContainsKey(c.tokens_per_owner, owner_id)
                      THEN c.tokens_per_owner[owner_id] ELSE << >>
    IN  [c EXCEPT !.tokens_per_owner =
            Insert(c.tokens_per_owner, owner_id, SetInsert(tokens_set, token_id))]

\* internal_mint past its assertion: the state after the three inserts.
internal_mint(c, token_id, receiver_id, metadata) ==
    LET c1 == [c EXCEPT !.tokens_by_id =
                  Insert(c.tokens_by_id, token_id, [owner_id |-> receiver_id])]
        c2 == internal_add_token_to_owner(c1, receiver_id, token_id)
    IN  IF metadata = None THEN c2
        ELSE [c2 EXCEPT !.token_metadata_by_id =
                 Insert(c2.token_metadata_by_id, token_id, metadata[1])]

SbtMetadata(token_id, emotion_data, biometric_hash, ts) ==
    [ title |-> Some("Biometric Soulbound Token #" \o token_id),
      description |-> Some("AI-verified biometric authentication token. Primary emotion: "
                           \o emotion_data.primary_emotion \o " (confidence: "
                           \o ToString(emotion_data.confidence) \o ".00%)"),
      copies |-> Some(1),
      issued_at |-> Some(ts),
      starts_at |-> Some(ts),
      updated_at |-> Some(ts),
      extra |-> Some("biometric_hash:" \o biometric_hash) ]

\* Mutant: internal_mint without its assertion that the token is new.
NftMintErr_NoExistsCheck(c, token_id, quality_score) ==
    IF ~(quality_score >= QUALITY_THRESHOLD) THEN "Biometric quality too low" ELSE ""

\* Mutant: the quality assertion is missing.
NftMintErr_NoQuality(c, token_id, quality_score) ==
    IF ContainsKey(c.tokens_by_id, token_id) THEN "Token already exists" ELSE ""

\* The outcome of nft_mint: the error message ("" when the call succeeds).
NftMintErr(c, token_id, quality_score) ==
    IF ~(quality_score >= QUALITY_THRESHOLD) THEN "Biometric quality too low"
    ELSE IF ContainsKey(c.tokens_by_id, token_id) THEN "Token already exists"
    ELSE ""

\* The storage after a successful nft_mint.
NftMintState(c, token_id, receiver_id, emotion_data, quality_score, biometric_hash, ts) ==
    LET biometric == [ biometric_hash |-> biometric_hash,
                       emotion_data |-> emotion_data,
                       quality_score |-> quality_score,
                       device_id |-> "emotiv_epoc_x",
                       timestamp |-> ts,
                       verification_method |-> "AI-Enhanced" ]
        emotion_record == [ timestamp |-> ts, emotion_data |-> emotion_data,
                            context |-> "Minting" ]
        c1 == internal_mint(c, token_id, receiver_id,
                            Some(SbtMetadata(token_id, emotion_data, biometric_hash, ts)))
        c2 == [c1 EXCEPT !.biometric_data = Insert(c1.biometric_data, token_id, biometric)]
    IN  [c2 EXCEPT !.emotion_history =
            Insert(c2.emotion_history, token_id, <<emotion_record>>)]

SbtMint(op, caller, token_id, receiver_id, emotion_data, quality_score, biometric_hash) ==
    LET err == NftMintErr(contract, token_id, quality_score) IN
    /\ contract' = IF err = ""
                   THEN NftMintState(contract, token_id, receiver_id, emotion_data,
                                     quality_score, biometric_hash, now)
                   ELSE contract
    /\ result' = [ op |-> op, token_id |-> token_id, receiver_id |-> receiver_id,
                   quality_score |-> quality_score, biometric_hash |-> biometric_hash,
                   err |-> err ]
    /\ UNCHANGED now
    /\ UNCHANGED SbtRest

nft_mint(caller, token_id, receiver_id, emotion_data, quality_score, biometric_hash) ==
    SbtMint("nft_mint", caller, token_id, receiver_id, emotion_data, quality_score,
            biometric_hash)

\* mint_soulbound delegates to nft_mint.
mint_soulbound(caller, token_id, receiver_id, emotion_data, quality_score, biometric_hash) ==
    SbtMint("mint_soulbound", caller, token_id, receiver_id, emotion_data, quality_score,
            biometric_hash)

\* Mutant: a NEP-171 transfer by the token's owner.
SbtTransferState_Moves(c, caller, receiver_id, token_id) ==
    IF ContainsKey(c.tokens_by_id, token_id) /\ c.tokens_by_id[token_id].owner_id = caller
    THEN [c EXCEPT !.tokens_by_id[token_id].owner_id = receiver_id]
    ELSE c

\* nft_transfer and nft_transfer_call: env::panic_str, unconditionally.
SbtTransferState(c, caller, receiver_id, token_id) == c

SbtTransferErr(c, caller, receiver_id, token_id) ==
    "Soulbound tokens are non-transferable"

SbtTransfer(op, caller, receiver_id, token_id) ==
    /\ contract' = SbtTransferState(contract, caller, receiver_id, token_id)
    /\ result' = [ op |-> op, caller |-> caller, token_id |-> token_id,
                   receiver_id |-> receiver_id,
                   err |-> SbtTransferErr(contract, caller, receiver_id, token_id) ]
    /\ UNCHANGED now
    /\ UNCHANGED SbtRest

nft_transfer(caller, receiver_id, token_id) ==
    SbtTransfer("nft_transfer", caller, receiver_id, token_id)

nft_transfer_call(caller, receiver_id, token_id) ==
    SbtTransfer("nft_transfer_call", caller, receiver_id, token_id)

\* View methods.
nft_token(c, token_id) ==
    IF ~ContainsKey(c.tokens_by_id, token_id) THEN None
    ELSE IF ~ContainsKey(c.token_metadata_by_id, token_id) THEN None
    ELSE Some([ token_id |-> token_id,
                owner_id |-> c.tokens_by_id[token_id].owner_id,
                metadata |-> c.token_metadata_by_id[token_id],
                biometric_data |-> Get(c.biometric_data, token_id) ])

\* The ids of nft_tokens_for_owner(account_id, None, None).
nft_tokens_for_owner(c, account_id) ==
    LET tokens_set == IF ContainsKey(c.tokens_per_owner, account_id)
                      THEN c.tokens_per_owner[account_id] ELSE << >>
    IN  {t \in Range(tokens_set) : nft_token(c, t) # None}

\* verify_biometric, for a stored token (it panics with "Token not found" otherwise).
verify_biometric(c, token_id, biometric_hash) ==
    c.biometric_data[token_id].biometric_hash = biometric_hash

get_emotion_history(c, token_id) ==
    IF ContainsKey(c.emotion_history, token_id) THEN c.emotion_history[token_id] ELSE << >>


(***************************************************************************)
(* contracts/near/soulbound-ai-governance/src/lib.rs: SoulboundAIGovernance *)
(***************************************************************************)
\* Token and proposal ids are arbitrary strings; these make format!("{}_{}")
\* of two different (token, proposal) pairs meet: "a"+"_"+"b_c" = "a_b"+"_"+"c".
GovTokenIds == {"a", "a_b"}
GovProposalIds == {"b_c", "c"}
GovVoteTypes == {"For", "Against", "Abstain"}
GovMetadata ==
    { [title |-> "AI Researcher Soulbound", copies |-> 1],
      [title |-> "Data Steward Soulbound", copies |-> 1] }
GovBiometricHash == <<5, 6, 7, 8>>
GovContribution ==
    [ contribution_type |-> "training", model_id |-> "m1", accuracy_score |-> 90,
      chain |-> "near", reward_points |-> 10 ]
GovConfidences == {80}

GovVotingPeriods == {0, 1}

\* Bound: the contributions kept per token.
MaxContributions == 1

GovNew(owner) ==
    [ owner |-> owner,
      total_supply |-> 0,
      token_metadata |-> EmptyMap,
      token_owners |-> EmptyMap,
      account_tokens |-> EmptyMap,
      soulbound_data |-> EmptyMap,
      ai_governance_votes |-> EmptyMap,
      proposals |-> EmptyMap,
      active_proposals |-> << >>,
      ai_models |-> EmptyMap,
      federated_updates |-> EmptyMap ]

\* What a governance call leaves alone.  (A panic rolls the storage back, so a
\* failed call leaves gov alone as well.)
GovFrame == UNCHANGED <<now, contract, sol, fvm, simple, ccai, solcc, client>>

\* Mutant: the token only has to exist.
IsTokenOwner_AnyOwner(g, token_id, caller) == ContainsKey(g.token_owners, token_id)

\* require!(self.token_owners.get(&token_id) == Some(caller), "Not token owner")
IsTokenOwner(g, token_id, caller) == Get(g.token_owners, token_id) = Some(caller)

\* ---- mint_soulbound_token
\* Mutant: the existence check is missing.
MintSoulboundTokenErr_NoCheck(g, token_id) == ""

MintSoulboundTokenErr(g, token_id) ==
    IF ContainsKey(g.token_owners, token_id) THEN "Token already exists" ELSE ""

\* Mutant: the token is indexed under the contract's owner, not the caller.
MintSoulboundTokenState_IndexedUnderOwner(g, owner, token_id, metadata, biometric_hash) ==
    LET owner_tokens == IF ContainsKey(g.account_tokens, g.owner)
                        THEN g.account_tokens[g.owner] ELSE << >>
        soulbound_data == [ biometric_hash |-> biometric_hash,
                            ai_contributions |-> << >>,
                            reputation_score |-> 100,
                            trust_level |-> 1,
                            governance_participation |-> 0,
                            data_quality_score |-> 0,
                            ethical_alignment |-> 50,
                            cross_chain_activity |-> EmptyMap ]
    IN  [g EXCEPT
            !.token_metadata = Insert(g.token_metadata, token_id, metadata),
            !.token_owners = Insert(g.token_owners, token_id, owner),
            !.account_tokens = Insert(g.account_tokens, g.owner,
                                      SetInsert(owner_tokens, token_id)),
            !.soulbound_data = Insert(g.soulbound_data, token_id, soulbound_data),
            !.total_supply = g.total_supply + 1]

MintSoulboundTokenState(g, owner, token_id, metadata, biometric_hash) ==
    LET owner_tokens == IF ContainsKey(g.account_tokens, owner)
                        THEN g.account_tokens[owner] ELSE << >>
        soulbound_data == [ biometric_hash |-> biometric_hash,
                            ai_contributions |-> << >>,
                            reputation_score |-> 100,
                            trust_level |-> 1,
                            governance_participation |-> 0,
                            data_quality_score |-> 0,
                            ethical_alignment |-> 50,
                            cross_chain_activity |-> EmptyMap ]
    IN  [g EXCEPT
            !.token_metadata = Insert(g.token_metadata, token_id, metadata),
            !.token_owners = Insert(g.token_owners, token_id, owner),
            !.account_tokens = Insert(g.account_tokens, owner,
                                      SetInsert(owner_tokens, token_id)),
            !.soulbound_data = Insert(g.soulbound_data, token_id, soulbound_data),
            !.total_supply = g.total_supply + 1]

mint_soulbound_token(caller, token_id, metadata, biometric_hash) ==
    LET err == MintSoulboundTokenErr(gov, token_id) IN
    /\ gov' = IF err = ""
              THEN MintSoulboundTokenState(gov, caller, token_id, metadata, biometric_hash)
              ELSE gov
    /\ result' = [op |-> "mint_soulbound_token", err |-> err]
    /\ GovFrame

\* ---- record_ai_contribution
RECURSIVE SumField(_, _)
SumField(seq, f) == IF seq = << >> THEN 0 ELSE seq[1][f] + SumField(Tail(seq), f)

Min(a, b) == IF a <= b THEN a ELSE b

\* (total_accuracy / len) * min(total_rewards / 100.0, 1.0), in hundredths.
calculate_data_quality(contributions) ==
    IF contributions = << >> THEN 0
    ELSE ((SumField(contributions, "accuracy_score") \div Len(contributions))
          * Min(SumField(contributions, "reward_points"), 100)) \div 100

RecordAiContributionErr(g, caller, token_id) ==
    IF ~IsTokenOwner(g, token_id, caller) THEN "Not token owner"
    ELSE IF ~ContainsKey(g.soulbound_data, token_id) THEN "Soulbound data not found"
    ELSE ""

RecordAiContributionState(g, token_id, contribution, ts) ==
    LET sd == g.soulbound_data[token_id]
        contributions == Append(sd.ai_contributions, contribution @@ [timestamp |-> ts])
    IN  [g EXCEPT !.soulbound_data[token_id] =
            [sd EXCEPT !.ai_contributions = contributions,
                       !.reputation_score = sd.reputation_score + contribution.reward_points,
                       !.data_quality_score = calculate_data_quality(contributions)]]

record_ai_contribution(caller, token_id, contribution) ==
    LET err == RecordAiContributionErr(gov, caller, token_id) IN
    \* the model keeps at most MaxContributions contributions per token
    /\ err = "" => Len(gov.soulbound_data[token_id].ai_contributions) < MaxContributions
    /\ gov' = IF err = ""
              THEN RecordAiContributionState(gov, token_id, contribution, now)
              ELSE gov
    /\ result' = [op |-> "record_ai_contribution", err |-> err]
    /\ GovFrame

\* ---- create_governance_proposal
\* Mutant: an existing proposal is replaced by the new one.
CreateGovernanceProposalErr_NoCheck(g, proposal_id) == ""

CreateGovernanceProposalErr(g, proposal_id) ==
    IF ContainsKey(g.proposals, proposal_id) THEN "Proposal already exists" ELSE ""

CreateGovernanceProposalState(g, creator, proposal_id, voting_period, ts) ==
    LET proposal == [ proposal_id |-> proposal_id,
                      creator |-> creator,
                      voting_period |-> voting_period,
                      votes_for |-> 0,
                      votes_against |-> 0,
                      votes_abstain |-> 0,
                      ai_consensus_score |-> 0,
                      status |-> "Active",
                      created_at |-> ts,
                      executed_at |-> None ]
    IN  [g EXCEPT !.proposals = Insert(g.proposals, proposal_id, proposal),
                  !.active_proposals = SetInsert(g.active_proposals, proposal_id)]

create_governance_proposal(caller, proposal_id, voting_period) ==
    LET err == CreateGovernanceProposalErr(gov, proposal_id) IN
    /\ gov' = IF err = ""
              THEN CreateGovernanceProposalState(gov, caller, proposal_id, voting_period, now)
              ELSE gov
    /\ result' = [op |-> "create_governance_proposal", err |-> err]
    /\ GovFrame

\* ---- vote_on_proposal
\* format!("{}_{}", token_id, proposal_id)
VoteKey(token_id, proposal_id) == token_id \o "_" \o proposal_id

RECURSIVE SumConfidence(_, _)
SumConfidence(votes, keys) ==
    IF keys = {} THEN 0
    ELSE LET k == CHOOSE x \in keys : TRUE
         IN  votes[k].ai_confidence + SumConfidence(votes, keys \ {k})

\* The mean ai_confidence of the stored votes that name the proposal.
calculate_ai_consensus(g, proposal_id) ==
    LET keys == {k \in DOMAIN g.ai_governance_votes :
                    g.ai_governance_votes[k].proposal_id = proposal_id}
    IN  IF Cardinality(keys) > 0
        THEN SumConfidence(g.ai_governance_votes, keys) \div Cardinality(keys)
        ELSE 0

\* Mutant: the last instant of the window is counted in.
VotingOpen_Inclusive(proposal, current_time) ==
    current_time <= proposal.created_at + proposal.voting_period

\* current_time < proposal.created_at.0 + proposal.voting_period.0
VotingOpen(proposal, current_time) ==
    current_time < proposal.created_at + proposal.voting_period

\* Mutant: a second vote of the same token on the same proposal is let through.
VoteOnProposalErr_NoDoubleVoteCheck(g, voter, token_id, proposal_id, current_time) ==
    IF ~IsTokenOwner(g, token_id, voter) THEN "Not token owner"
    ELSE IF ~ContainsKey(g.proposals, proposal_id) THEN "Proposal not found"
    ELSE IF g.proposals[proposal_id].status # "Active" THEN "Proposal not active"
    ELSE IF ~VotingOpen(g.proposals[proposal_id], current_time) THEN "Voting period ended"
    ELSE IF ~ContainsKey(g.soulbound_data, token_id) THEN "Soulbound data not found"
    ELSE ""

VoteOnProposalErr(g, voter, token_id, proposal_id, current_time) ==
    IF ~IsTokenOwner(g, token_id, voter) THEN "Not token owner"
    ELSE IF ~ContainsKey(g.proposals, proposal_id) THEN "Proposal not found"
    ELSE IF g.proposals[proposal_id].status # "Active" THEN "Proposal not active"
    ELSE IF ~VotingOpen(g.proposals[proposal_id], current_time) THEN "Voting period ended"
    ELSE IF ContainsKey(g.ai_governance_votes, VoteKey(token_id, proposal_id))
         THEN "Already voted"
    ELSE IF ~ContainsKey(g.soulbound_data, token_id) THEN "Soulbound data not found"
    ELSE ""

\* Mutant: Against and Abstain are counted in each other's bucket.
CountVote_Swapped(proposal, vote_type) ==
    CASE vote_type = "For" -> [proposal EXCEPT !.votes_for = @ + 1]
      [] vote_type = "Against" -> [proposal EXCEPT !.votes_abstain = @ + 1]
      [] vote_type = "Abstain" -> [proposal EXCEPT !.votes_against = @ + 1]

\* The proposal with the counter of vote_type incremented.
CountVote(proposal, vote_type) ==
    CASE vote_type = "For" -> [proposal EXCEPT !.votes_for = @ + 1]
      [] vote_type = "Against" -> [proposal EXCEPT !.votes_against = @ + 1]
      [] vote_type = "Abstain" -> [proposal EXCEPT !.votes_abstain = @ + 1]

\* Mutant: the vote is stored and counted but the token's participation is not.
VoteOnProposalState_NoParticipation(g, token_id, proposal_id, vote_type, ai_confidence, current_time) ==
    LET vote == [ voter_token_id |-> token_id, proposal_id |-> proposal_id,
                  vote_type |-> vote_type, ai_confidence |-> ai_confidence,
                  timestamp |-> current_time ]
        g1 == [g EXCEPT !.ai_governance_votes =
                  Insert(g.ai_governance_votes, VoteKey(token_id, proposal_id), vote)]
        counted == CountVote(g.proposals[proposal_id], vote_type)
        proposal == [counted EXCEPT
                        !.ai_consensus_score = calculate_ai_consensus(g1, proposal_id)]
    IN  [g1 EXCEPT !.proposals = Insert(g1.proposals, proposal_id, proposal)]

VoteOnProposalState(g, token_id, proposal_id, vote_type, ai_confidence, current_time) ==
    LET vote == [ voter_token_id |-> token_id,
                  proposal_id |-> proposal_id,
                  vote_type |-> vote_type,
                  ai_confidence |-> ai_confidence,
                  timestamp |-> current_time ]
        g1 == [g EXCEPT !.ai_governance_votes =
                  Insert(g.ai_governance_votes, VoteKey(token_id, proposal_id), vote)]
        counted == CountVote(g.proposals[proposal_id], vote_type)
        proposal == [counted EXCEPT
                        !.ai_consensus_score = calculate_ai_consensus(g1, proposal_id)]
        g2 == [g1 EXCEPT !.proposals = Insert(g1.proposals, proposal_id, proposal)]
    IN  [g2 EXCEPT !.soulbound_data[token_id].governance_participation = @ + 1]

vote_on_proposal(caller, token_id, proposal_id, vote_type, ai_confidence) ==
    LET err == VoteOnProposalErr(gov, caller, token_id, proposal_id, now) IN
    /\ gov' = IF err = ""
              THEN VoteOnProposalState(gov, token_id, proposal_id, vote_type, ai_confidence,
                                       now)
              ELSE gov
    /\ result' = [op |-> "vote_on_proposal", err |-> err]
    /\ GovFrame

\* ---- register_ai_model, submit_federated_update: no check, one insert each
RegisterAiModelState(g, creator, model_id, model_type) ==
    [g EXCEPT !.ai_models = Insert(@, model_id,
        [model_id |-> model_id, model_type |-> model_type, creator |-> creator,
         approved |-> FALSE, federated_participants |-> << >>])]

register_ai_model(caller, model_id, model_type) ==
    /\ gov' = RegisterAiModelState(gov, caller, model_id, model_type)
    /\ result' = [op |-> "register_ai_model", err |-> ""]
    /\ GovFrame

SubmitFederatedUpdateState(g, participant_id, update_id, model_id, ts) ==
    [g EXCEPT !.federated_updates = Insert(@, update_id,
        [update_id |-> update_id, model_id |-> model_id, participant_id |-> participant_id,
         timestamp |-> ts, verified |-> FALSE, consensus_score |-> 0])]

submit_federated_update(caller, update_id, model_id) ==
    /\ gov' = SubmitFederatedUpdateState(gov, caller, update_id, model_id, now)
    /\ result' = [op |-> "submit_federated_update", err |-> ""]
    /\ GovFrame

\* ---- record_cross_chain_activity
RecordCrossChainActivityErr(g, caller, token_id) ==
    IF ~IsTokenOwner(g, token_id, caller) THEN "Not token owner"
    ELSE IF ~ContainsKey(g.soulbound_data, token_id) THEN "Soulbound data not found"
    ELSE ""

RecordCrossChainActivityState(g, token_id, chain, activity_type, tx_hash, block_height, ts) ==
    LET activity == [ chain |-> chain, activity_type |-> activity_type,
                      tx_hash |-> tx_hash, block_height |-> block_height,
                      timestamp |-> ts ]
    IN  [g EXCEPT !.soulbound_data[token_id].cross_chain_activity =
            Insert(@, chain \o "_" \o tx_hash, activity)]

record_cross_chain_activity(caller, token_id, chain, activity_type, tx_hash, block_height) ==
    LET err == RecordCrossChainActivityErr(gov, caller, token_id) IN
    /\ gov' = IF err = ""
              THEN RecordCrossChainActivityState(gov, token_id, chain, activity_type,
                                                 tx_hash, block_height, now)
              ELSE gov
    /\ result' = [op |-> "record_cross_chain_activity", err |-> err]
    /\ GovFrame

\* ---- views
get_token_metadata(g, token_id) == Get(g.token_metadata, token_id)
get_soulbound_data(g, token_id) == Get(g.soulbound_data, token_id)
get_proposal(g, proposal_id) == Get(g.proposals, proposal_id)
get_total_supply(g) == g.total_supply
get_owner_tokens(g, account_id) ==
    IF ContainsKey(g.account_tokens, account_id) THEN g.account_tokens[account_id] ELSE << >>

(***************************************************************************)
(* contracts/solana/biometric-nft: the Anchor program biometric_nft.       *)
(* sol maps the address of every created BiometricNFT account to its data. *)
(***************************************************************************)
SolAccounts == {"nftA", "nftB"}
SolUsers == {"userX", "userY"}
SolQualities == {69, 70}
SolHashes == {"aaaaaaaaaaaaaaaaaaaaaaaaaaaaaaaaaaaaaaaaaaaaaaaaaaaaaaaaaaaaaaaa",
              "bbbbbbbbbbbbbbbbbbbbbbbbbbbbbbbbbbbbbbbbbbbbbbbbbbbbbbbbbbbbbbbb",
              "hash123"}
SolCrossChainIds == {"near:token1"}

SolEmotion(h, sa, an, f, su, n) ==
    [happiness |-> h, sadness |-> sa, anger |-> an, fear |-> f, surprise |-> su,
     neutral |-> n]
\* EmotionData::default()
SolEmotionDefault == SolEmotion(0, 0, 0, 0, 0, 0)
\* Emotion inputs: one inside [0, 1] that touches both ends, and one for each
\* component outside it.
SolEmotions ==
    { SolEmotion(100, 0, 50, 50, 50, 50),
      SolEmotion(101, 50, 50, 50, 50, 50), SolEmotion(50, -1, 50, 50, 50, 50),
      SolEmotion(50, 50, 150, 50, 50, 50), SolEmotion(50, 50, 50, -20, 50, 50),
      SolEmotion(50, 50, 50, 50, 101, 50), SolEmotion(50, 50, 50, 50, 50, -1) }

SOL_QUALITY_THRESHOLD == 70
SOL_HASH_LEN == 64

SolFrame == UNCHANGED <<now, contract, gov, fvm, simple, ccai, solcc, client>>

\* Mutant: the last component, neutral, is not checked.
EmotionInRange_NeutralUnchecked(e) ==
    /\ e.happiness >= 0 /\ e.happiness <= 100
    /\ e.sadness >= 0 /\ e.sadness <= 100
    /\ e.anger >= 0 /\ e.anger <= 100
    /\ e.fear >= 0 /\ e.fear <= 100
    /\ e.surprise >= 0 /\ e.surprise <= 100

\* The six range checks of mint_biometric_nft and update_emotion_data.
EmotionInRange(e) ==
    /\ e.happiness >= 0 /\ e.happiness <= 100
    /\ e.sadness >= 0 /\ e.sadness <= 100
    /\ e.anger >= 0 /\ e.anger <= 100
    /\ e.fear >= 0 /\ e.fear <= 100
    /\ e.surprise >= 0 /\ e.surprise <= 100
    /\ e.neutral >= 0 /\ e.neutral <= 100

\* ---- initialize: #[account(init)] creates the account, so it must not exist yet.
InitializeErr(accounts, nft_account) ==
    IF nft_account \in DOMAIN accounts THEN "AccountAlreadyInUse" ELSE ""

\* Mutant: the soulbound flag keeps the zero the new account holds.
InitializeState_NotSoulbound(accounts, nft_account, user) ==
    Insert(accounts, nft_account,
           [ owner |-> user, is_initialized |-> TRUE, biometric_hash |-> "",
             emotion_data |-> SolEmotionDefault, quality_score |-> 0,
             soulbound |-> FALSE, cross_chain_id |-> "", token_id |-> "",
             mint_timestamp |-> 0, last_update_timestamp |-> 0 ])

InitializeState(accounts, nft_account, user) ==
    Insert(accounts, nft_account,
           [ owner |-> user,
             is_initialized |-> TRUE,
             biometric_hash |-> "",
             emotion_data |-> SolEmotionDefault,
             quality_score |-> 0,
             soulbound |-> TRUE,
             cross_chain_id |-> "",
             token_id |-> "",
             mint_timestamp |-> 0,
             last_update_timestamp |-> 0 ])

initialize(nft_account, user) ==
    LET err == InitializeErr(sol, nft_account) IN
    /\ sol' = IF err = "" THEN InitializeState(sol, nft_account, user) ELSE sol
    /\ result' = [op |-> "initialize", err |-> err]
    /\ SolFrame

\* ---- mint_biometric_nft
MintBiometricNftErr(accounts, nft_account, emotion_data, quality_score, biometric_hash) ==
    IF nft_account \notin DOMAIN accounts THEN "AccountNotInitialized"
    ELSE IF ~(quality_score >= SOL_QUALITY_THRESHOLD) THEN "LowQualityScore"
    ELSE IF ~(Len(biometric_hash) = SOL_HASH_LEN) THEN "InvalidBiometricHash"
    ELSE IF ~EmotionInRange(emotion_data) THEN "InvalidEmotionData"
    ELSE ""

\* hash(format!("{}{}", owner, biometric_hash)).to_string()
SolTokenId(owner, biometric_hash) == "sha256(" \o owner \o biometric_hash \o ")"

MintBiometricNftState(accounts, nft_account, emotion_data, quality_score, biometric_hash, cross_chain_id, ts) ==
    [accounts EXCEPT ![nft_account] =
        [@ EXCEPT !.biometric_hash = biometric_hash,
                  !.emotion_data = emotion_data,
                  !.quality_score = quality_score,
                  !.cross_chain_id = cross_chain_id,
                  !.mint_timestamp = ts,
                  !.token_id = SolTokenId(accounts[nft_account].owner, biometric_hash)]]

mint_biometric_nft(nft_account, user, emotion_data, quality_score, biometric_hash, cross_chain_id) ==
    LET err == MintBiometricNftErr(sol, nft_account, emotion_data, quality_score,
                                   biometric_hash) IN
    /\ sol' = IF err = ""
              THEN MintBiometricNftState(sol, nft_account, emotion_data, quality_score,
                                         biometric_hash, cross_chain_id, now)
              ELSE sol
    /\ result' = [op |-> "mint_biometric_nft", err |-> err]
    /\ SolFrame

\* ---- update_emotion_data
\* Mutant: the owner check is missing.
UpdateEmotionDataErr_AnySigner(accounts, nft_account, user, new_emotion_data) ==
    IF nft_account \notin DOMAIN accounts THEN "AccountNotInitialized"
    ELSE IF ~EmotionInRange(new_emotion_data) THEN "InvalidEmotionData"
    ELSE ""

UpdateEmotionDataErr(accounts, nft_account, user, new_emotion_data) ==
    IF nft_account \notin DOMAIN accounts THEN "AccountNotInitialized"
    ELSE IF ~(accounts[nft_account].owner = user) THEN "Unauthorized"
    ELSE IF ~EmotionInRange(new_emotion_data) THEN "InvalidEmotionData"
    ELSE ""

UpdateEmotionDataState(accounts, nft_account, new_emotion_data, ts) ==
    [accounts EXCEPT ![nft_account] =
        [@ EXCEPT !.emotion_data = new_emotion_data, !.last_update_timestamp = ts]]

update_emotion_data(nft_account, user, new_emotion_data) ==
    LET err == UpdateEmotionDataErr(sol, nft_account, user, new_emotion_data) IN
    /\ sol' = IF err = ""
              THEN UpdateEmotionDataState(sol, nft_account, new_emotion_data, now)
              ELSE sol
    /\ result' = [op |-> "update_emotion_data", err |-> err]
    /\ SolFrame

\* ---- transfer_nft
SolTransferNftErr(accounts, nft_account, user) ==
    IF nft_account \notin DOMAIN accounts THEN "AccountNotInitialized"
    ELSE IF ~(~accounts[nft_account].soulbound) THEN "SoulboundTransferRestricted"
    ELSE IF ~(accounts[nft_account].owner = user) THEN "Unauthorized"
    ELSE ""

SolTransferNftState(accounts, nft_account, new_owner, ts) ==
    [accounts EXCEPT ![nft_account] =
        [@ EXCEPT !.owner = new_owner, !.last_update_timestamp = ts]]

sol_transfer_nft(nft_account, user, new_owner) ==
    LET err == SolTransferNftErr(sol, nft_account, user) IN
    /\ sol' = IF err = "" THEN SolTransferNftState(sol, nft_account, new_owner, now)
              ELSE sol
    /\ result' = [op |-> "transfer_nft", err |-> err]
    /\ SolFrame

\* ---- views (on a created account)
sol_verify_biometric_data(accounts, nft_account, biometric_hash) ==
    accounts[nft_account].biometric_hash = biometric_hash
get_emotion_data(accounts, nft_account) == accounts[nft_account].emotion_data
get_cross_chain_id(accounts, nft_account) == accounts[nft_account].cross_chain_id

(***************************************************************************)
(* contracts/filecoin/biometric-nft-actor: the FVM actor.                  *)
(* fvm is the actor's state root: None before the first save_state, then   *)
(* Some(State).  The IPLD encoding is taken to give back what was stored.  *)
(* An abort or a non-zero exit leaves the root as it was.                  *)
(***************************************************************************)
FvmCallers == {1001, 1002}
FvmMethods == 0..5

\* Bound: the NFTs minted.
MaxNfts == 5

FvmFrame == UNCHANGED <<now, contract, gov, sol, simple, ccai, solcc, client>>

\* State::default()
FvmStateDefault == [nfts |-> << >>, total_supply |-> 0, owner_to_tokens |-> EmptyMap]

load_state(root) == IF root = None THEN FvmStateDefault ELSE root[1]
save_state(state) == Some(state)

\* parse_biometric_params: the same dummy data for every params.
parse_biometric_params(params) ==
    [ emotion_score |-> 85, biometric_hash |-> "test_biometric_hash",
      timestamp |-> 1640995200, quality_score |-> 95 ]

\* Mutant: the NFT is stored transferable.
FvmMintState_Transferable(state, params, caller) ==
    [ nfts |-> Append(state.nfts,
                      [ owner |-> caller, biometric_data |-> parse_biometric_params(params),
                        soulbound |-> FALSE,
                        cross_chain_id |-> "filecoin_biometric_"
                                           \o ToString(state.total_supply) ]),
      total_supply |-> state.total_supply + 1,
      owner_to_tokens |->
          Insert(state.owner_to_tokens, caller,
                 Append(IF caller \in DOMAIN state.owner_to_tokens
                        THEN state.owner_to_tokens[caller] ELSE << >>,
                        state.total_supply)) ]

\* mint_biometric_nft: the state it saves.
FvmMintState(state, params, caller) ==
    LET nft_metadata == [ owner |-> caller,
                          biometric_data |-> parse_biometric_params(params),
                          soulbound |-> TRUE,
                          cross_chain_id |-> "filecoin_biometric_"
                                             \o ToString(state.total_supply) ]
        tokens == IF caller \in DOMAIN state.owner_to_tokens
                  THEN state.owner_to_tokens[caller] ELSE << >>
    IN  [ nfts |-> Append(state.nfts, nft_metadata),
          total_supply |-> state.total_supply + 1,
          owner_to_tokens |-> Insert(state.owner_to_tokens, caller,
                                     Append(tokens, state.total_supply)) ]

\* put_ok: whether the host stored the block and set the root; save_state aborts
\* with USR_SERIALIZATION or USR_ILLEGAL_STATE when it did not.
fvm_mint_biometric_nft(params, caller, put_ok) ==
    LET state == FvmMintState(load_state(fvm), params, caller) IN
    /\ Len(load_state(fvm).nfts) < MaxNfts
    /\ fvm' = IF put_ok THEN save_state(state) ELSE fvm
    /\ result' = [ op |-> "mint_biometric_nft", params |-> params,
                   exit |-> IF put_ok THEN "OK" ELSE "USR_SERIALIZATION",
                   ret |-> IF put_ok THEN state.total_supply - 1 ELSE 0 ]
    /\ FvmFrame

\* get_nft_metadata: token_id is params.
FvmGetNftMetadataExit(state, params) ==
    IF params >= Len(state.nfts) THEN "USR_NOT_FOUND" ELSE "EXIT_0"

fvm_get_nft_metadata(params, caller) ==
    /\ fvm' = fvm
    /\ result' = [ op |-> "get_nft_metadata", params |-> params,
                   exit |-> FvmGetNftMetadataExit(load_state(fvm), params), ret |-> 0 ]
    /\ FvmFrame

\* verify_biometric_data: token_id is params, the hash is "verification_hash".
FvmVerifyExit(state, params) ==
    IF params >= Len(state.nfts) THEN "USR_NOT_FOUND"
    ELSE IF state.nfts[params + 1].biometric_data.biometric_hash = "verification_hash"
         THEN "EXIT_1" ELSE "EXIT_0"

fvm_verify_biometric_data(params, caller) ==
    /\ fvm' = fvm
    /\ result' = [ op |-> "verify_biometric_data", params |-> params,
                   exit |-> FvmVerifyExit(load_state(fvm), params), ret |-> 0 ]
    /\ FvmFrame

\* transfer_nft: token_id is params; it never calls save_state.
FvmTransferExit(state, params) ==
    IF params >= Len(state.nfts) THEN "USR_NOT_FOUND"
    ELSE IF state.nfts[params + 1].soulbound THEN "USR_FORBIDDEN"
    ELSE "EXIT_1"

fvm_transfer_nft(params, caller) ==
    /\ fvm' = fvm
    /\ result' = [ op |-> "transfer_nft", params |-> params,
                   exit |-> FvmTransferExit(load_state(fvm), params), ret |-> 0 ]
    /\ FvmFrame

fvm_unhandled(params, caller) ==
    /\ fvm' = fvm
    /\ result' = [ op |-> "invoke", params |-> params, exit |-> "USR_UNHANDLED_MESSAGE",
                   ret |-> 0 ]
    /\ FvmFrame

\* Mutant: method 4 is dispatched to the mint.
invoke_TransferMints(params, caller, put_ok) ==
    CASE params = 1 -> fvm_mint_biometric_nft(params, caller, put_ok)
      [] params = 2 -> fvm_get_nft_metadata(params, caller)
      [] params = 3 -> fvm_verify_biometric_data(params, caller)
      [] params = 4 -> fvm_mint_biometric_nft(params, caller, put_ok)
      [] OTHER -> fvm_unhandled(params, caller)

\* invoke: the method number is also what every method parses its arguments from.
invoke(params, caller, put_ok) ==
    CASE params = 1 -> fvm_mint_biometric_nft(params, caller, put_ok)
      [] params = 2 -> fvm_get_nft_metadata(params, caller)
      [] params = 3 -> fvm_verify_biometric_data(params, caller)
      [] params = 4 -> fvm_transfer_nft(params, caller)
      [] OTHER -> fvm_unhandled(params, caller)

(***************************************************************************)
(* near-wasm/src/lib.rs: SimpleNftContract.                                *)
(* tokens is the NonFungibleToken of near-contract-standards, built with   *)
(* the metadata, enumeration and approval prefixes; its internal_mint is   *)
(* part of mint_nft.  Only the methods of the #[near] impl are exported.   *)
(***************************************************************************)
SimpleTokenIds == {"token1", "token2"}
SimpleInteractions == {"viewed"}
SimpleRecorders == {"bob.near"}
SimpleMetadata ==
    { [ title |-> Some("Test NFT"), description |-> Some("A test NFT that actually works"),
        media |-> Some("https://example.com/image.png"), media_hash |-> None,
        copies |-> Some(1), issued_at |-> Some("0"), expires_at |-> None,
        starts_at |-> None, updated_at |-> None, extra |-> None, reference |-> None,
        reference_hash |-> None ],
      [ title |-> Some("Test NFT"), description |-> Some("A test NFT"),
        media |-> None, media_hash |-> None,
        copies |-> None, issued_at |-> None, expires_at |-> None,
        starts_at |-> None, updated_at |-> None, extra |-> None, reference |-> None,
        reference_hash |-> None ] }

\* Bound: the interactions recorded for one token.
MaxHistory == 1

SimpleFrame == UNCHANGED <<now, contract, gov, sol, fvm, ccai, solcc, client>>

\* new
SimpleNew(owner_id) ==
    [ tokens |-> [ owner_id |-> owner_id,
                   owner_by_id |-> EmptyMap,
                   token_metadata_by_id |-> EmptyMap,
                   tokens_per_owner |-> EmptyMap,
                   approvals_by_id |-> EmptyMap ],
      owner_id |-> owner_id,
      token_metadata |-> EmptyMap,
      interaction_history |-> EmptyMap ]

\* NonFungibleToken::internal_mint: the token id must be new and the attached
\* deposit must pay for the storage the mint used.
MintNftErr(s, token_id, deposit_ok) ==
    IF token_id \in DOMAIN s.tokens.owner_by_id THEN "token_id must be unique"
    ELSE IF ~deposit_ok THEN "Must attach deposit to cover storage"
    ELSE ""

\* Mutant: the token is given to the contract's owner.
MintNftState_ToContractOwner(s, caller, token_id, metadata) ==
    [ s EXCEPT !.tokens.owner_by_id = Insert(@, token_id, s.owner_id),
               !.tokens.token_metadata_by_id = Insert(@, token_id, metadata),
               !.tokens.tokens_per_owner =
                   Insert(@, s.owner_id,
                          SetInsert(IF s.owner_id \in DOMAIN @ THEN @[s.owner_id] ELSE << >>,
                                    token_id)),
               !.tokens.approvals_by_id = Insert(@, token_id, EmptyMap),
               !.token_metadata = Insert(@, token_id, metadata),
               !.interaction_history = Insert(@, token_id, << >>) ]

MintNftState(s, caller, token_id, metadata) ==
    [ s EXCEPT !.tokens.owner_by_id = Insert(@, token_id, caller),
               !.tokens.token_metadata_by_id = Insert(@, token_id, metadata),
               !.tokens.tokens_per_owner =
                   Insert(@, caller,
                          SetInsert(IF caller \in DOMAIN @ THEN @[caller] ELSE << >>,
                                    token_id)),
               !.tokens.approvals_by_id = Insert(@, token_id, EmptyMap),
               !.token_metadata = Insert(@, token_id, metadata),
               !.interaction_history = Insert(@, token_id, << >>) ]

\* The Token mint_nft returns.
MintNftToken(caller, token_id, metadata) ==
    [ token_id |-> token_id, owner_id |-> caller, metadata |-> Some(metadata),
      approved_account_ids |-> Some(EmptyMap) ]

mint_nft(caller, token_id, metadata, deposit_ok) ==
    LET err == MintNftErr(simple, token_id, deposit_ok) IN
    /\ simple' = IF err = "" THEN MintNftState(simple, caller, token_id, metadata)
                 ELSE simple
    /\ result' = [op |-> "mint_nft", err |-> err]
    /\ SimpleFrame

\* format!("[{}] {}: {}", block_timestamp, predecessor_account_id, interaction)
InteractionWithTimestamp(timestamp, caller, interaction) ==
    "[" \o ToString(timestamp) \o "] " \o caller \o ": " \o interaction

get_interaction_history(s, token_id) ==
    IF token_id \in DOMAIN s.interaction_history
    THEN s.interaction_history[token_id] ELSE << >>

RecordInteractionState(s, caller, token_id, interaction, timestamp) ==
    [ s EXCEPT !.interaction_history =
          Insert(@, token_id,
                 Append(get_interaction_history(s, token_id),
                        InteractionWithTimestamp(timestamp, caller, interaction))) ]

record_interaction(caller, token_id, interaction) ==
    /\ Len(get_interaction_history(simple, token_id)) < MaxHistory
    /\ simple' = RecordInteractionState(simple, caller, token_id, interaction, now)
    /\ result' = [op |-> "record_interaction", err |-> ""]
    /\ SimpleFrame

get_metadata(s, token_id) == Get(s.token_metadata, token_id)

\* nft_total_supply: the length of owner_by_id.
total_supply(s) == Cardinality(DOMAIN s.tokens.owner_by_id)

tokens_for_owner(s, account_id) ==
    IF account_id \in DOMAIN s.tokens.tokens_per_owner
    THEN [ i \in 1..Len(s.tokens.tokens_per_owner[account_id]) |->
             LET token_id == s.tokens.tokens_per_owner[account_id][i] IN
             [ token_id |-> token_id, owner_id |-> account_id,
               metadata |-> Get(s.tokens.token_metadata_by_id, token_id),
               approved_account_ids |-> Get(s.tokens.approvals_by_id, token_id) ] ]
    ELSE << >>

get_nft(s, token_id) ==
    IF token_id \in DOMAIN s.tokens.owner_by_id
    THEN Some([ token_id |-> token_id, owner_id |-> s.tokens.owner_by_id[token_id],
                metadata |-> Get(s.tokens.token_metadata_by_id, token_id),
                approved_account_ids |-> Get(s.tokens.approvals_by_id, token_id) ])
    ELSE None

(***************************************************************************)
(* contracts/cross-chain-ai/src/lib.rs: the NEAR CrossChainAIML contract.  *)
(* A DataStream holds only the storage prefix of its metadata map; the     *)
(* entries of that map live in the contract's storage under the prefix     *)
(* (stream_metadata) and outlive the DataStream value that names it.       *)
(***************************************************************************)
CcContractAccount == "crosschain.near"
CcCallers == Accounts \cup {CcContractAccount}

CcFrame == UNCHANGED <<now, contract, gov, sol, fvm, simple, solcc, client>>

\* new
CcNew ==
    [ data_streams |-> EmptyMap,
      ai_data_packets |-> EmptyMap,
      emotional_metadata |-> EmptyMap,
      authorized_bridges |-> EmptyMap,
      ai_oracles |-> EmptyMap,
      active_stream_ids |-> << >>,
      stream_counter |-> 0,
      chain_ids |-> [ c \in {"filecoin", "near", "solana", "ethereum", "polygon"} |->
                        CASE c = "filecoin" -> "314" [] c = "near" -> "397"
                          [] c = "solana" -> "501" [] c = "ethereum" -> "1"
                          [] OTHER -> "137" ],
      stream_metadata |-> EmptyMap ]

is_authorized_bridge(c, account) ==
    IF account \in DOMAIN c.authorized_bridges THEN c.authorized_bridges[account] ELSE FALSE

is_ai_oracle(c, account) ==
    IF account \in DOMAIN c.ai_oracles THEN c.ai_oracles[account] ELSE FALSE

\* ---- create_data_stream
\* Mutant: the two chains may be the same.
CreateDataStreamErr_SameChain(c, stream_id, source_chain, target_chain, ipfs_hash) ==
    IF stream_id = "" THEN "Stream ID required"
    ELSE IF source_chain = "" THEN "Source chain required"
    ELSE IF target_chain = "" THEN "Target chain required"
    ELSE IF ipfs_hash = "" THEN "IPFS hash required"
    ELSE IF source_chain \notin DOMAIN c.chain_ids THEN "Invalid source chain"
    ELSE IF target_chain \notin DOMAIN c.chain_ids THEN "Invalid target chain"
    ELSE ""

CreateDataStreamErr(c, stream_id, source_chain, target_chain, ipfs_hash) ==
    IF stream_id = "" THEN "Stream ID required"
    ELSE IF source_chain = "" THEN "Source chain required"
    ELSE IF target_chain = "" THEN "Target chain required"
    ELSE IF ipfs_hash = "" THEN "IPFS hash required"
    ELSE IF source_chain \notin DOMAIN c.chain_ids THEN "Invalid source chain"
    ELSE IF target_chain \notin DOMAIN c.chain_ids THEN "Invalid target chain"
    ELSE IF source_chain = target_chain THEN "Source and target must differ"
    ELSE ""

\* format!("m_{}", stream_id)
StreamMetadataPrefix(stream_id) == "m_" \o stream_id

CreateDataStreamState(c, creator, stream_id, source_chain, target_chain, ipfs_hash, encrypted_data, epoch, timestamp) ==
    [ c EXCEPT !.data_streams =
                   Insert(@, stream_id,
                          [ stream_id |-> stream_id,
                            creator |-> creator,
                            source_chain |-> source_chain,
                            target_chain |-> target_chain,
                            ipfs_hash |-> ipfs_hash,
                            encrypted_data |-> encrypted_data,
                            timestamp |-> timestamp,
                            epoch |-> epoch,
                            active |-> TRUE,
                            metadata |-> StreamMetadataPrefix(stream_id) ]),
               !.active_stream_ids = Append(@, stream_id),
               !.stream_counter = @ + 1 ]

\* Inputs of the CrossChainAIML specifications.
CcStreamIds == {"", "stream1", "stream2"}
CcChains == {"", "near", "solana", "bitcoin"}
CcIpfsHashes == {"", "QmHash1"}
CcEncryptedData == <<1, 2, 3>>
CcEpoch == 7
CcPacketIds == {"", "packet1"}
CcDataTypes == {"", "inference", "training"}
CcConfidences == {0, 1, 100, 101}
CcModelVersions == {"", "v1"}
CcAiData == <<4, 5>>
CcSignature == <<6>>
CcInferenceResults ==
    { [ prediction |-> "happy", confidence_score |-> 95, model_name |-> "emotion-net",
        processing_time_ms |-> 12, input_hash |-> "in1", output_hash |-> "out1" ],
      [ prediction |-> "sad", confidence_score |-> 10, model_name |-> "",
        processing_time_ms |-> 0, input_hash |-> "", output_hash |-> "" ] }
CcRoundIds == {1, 2}
CcParticipants == {<< >>, <<"alice.near">>}
CcPositiveOrZero == {0, 50}

\* Bound: the entries of active_stream_ids.
MaxStreams == 2

create_data_stream(caller, stream_id, source_chain, target_chain, ipfs_hash, encrypted_data, epoch) ==
    LET err == CreateDataStreamErr(ccai, stream_id, source_chain, target_chain, ipfs_hash) IN
    /\ err = "" => Len(ccai.active_stream_ids) < MaxStreams
    /\ ccai' = IF err = ""
               THEN CreateDataStreamState(ccai, caller, stream_id, source_chain, target_chain,
                                          ipfs_hash, encrypted_data, epoch, now)
               ELSE ccai
    /\ result' = [ op |-> "create_data_stream", err |-> err,
                   ret |-> IF err = "" THEN Some(stream_id) ELSE None ]
    /\ CcFrame

\* ---- process_ai_data
\* Mutant: any caller may store a packet.
ProcessAiDataErr_AnyCaller(c, caller, packet_id, stream_id, data_type, confidence, model_version) ==
    IF packet_id = "" THEN "Packet ID required"
    ELSE IF stream_id = "" THEN "Stream ID required"
    ELSE IF data_type = "" THEN "Data type required"
    ELSE IF ~(confidence > 0 /\ confidence <= 100) THEN "Confidence must be 1-100"
    ELSE IF model_version = "" THEN "Model version required"
    ELSE IF stream_id \notin DOMAIN c.data_streams THEN "Stream does not exist"
    ELSE IF ~c.data_streams[stream_id].active THEN "Stream is not active"
    ELSE ""

ProcessAiDataErr(c, caller, packet_id, stream_id, data_type, confidence, model_version) ==
    IF packet_id = "" THEN "Packet ID required"
    ELSE IF stream_id = "" THEN "Stream ID required"
    ELSE IF data_type = "" THEN "Data type required"
    ELSE IF ~(confidence > 0 /\ confidence <= 100) THEN "Confidence must be 1-100"
    ELSE IF model_version = "" THEN "Model version required"
    ELSE IF stream_id \notin DOMAIN c.data_streams THEN "Stream does not exist"
    ELSE IF ~c.data_streams[stream_id].active THEN "Stream is not active"
    ELSE IF ~(caller = c.data_streams[stream_id].creator \/ is_authorized_bridge(c, caller))
         THEN "Unauthorized caller"
    ELSE ""

\* Mutant: the packet records the stream's data type as "inference".
ProcessAiDataState_DerivedType(c, packet_id, stream_id, data_type, ai_data, signature, confidence, model_version, inference_result, timestamp) ==
    [ c EXCEPT !.ai_data_packets =
          Insert(@, packet_id,
                 [ packet_id |-> packet_id, stream_id |-> stream_id,
                   data_type |-> "inference", ai_data |-> ai_data,
                   signature |-> signature, confidence |-> confidence,
                   model_version |-> model_version, timestamp |-> timestamp,
                   inference_result |-> inference_result ]) ]

ProcessAiDataState(c, packet_id, stream_id, data_type, ai_data, signature, confidence, model_version, inference_result, timestamp) ==
    [ c EXCEPT !.ai_data_packets =
          Insert(@, packet_id,
                 [ packet_id |-> packet_id,
                   stream_id |-> stream_id,
                   data_type |-> data_type,
                   ai_data |-> ai_data,
                   signature |-> signature,
                   confidence |-> confidence,
                   model_version |-> model_version,
                   timestamp |-> timestamp,
                   inference_result |-> inference_result ]) ]

process_ai_data(caller, packet_id, stream_id, data_type, ai_data, signature, confidence, model_version, inference_result) ==
    LET err == ProcessAiDataErr(ccai, caller, packet_id, stream_id, data_type, confidence,
                                model_version) IN
    /\ ccai' = IF err = ""
               THEN ProcessAiDataState(ccai, packet_id, stream_id, data_type, ai_data,
                                       signature, confidence, model_version,
                                       inference_result, now)
               ELSE ccai
    /\ result' = [ op |-> "process_ai_data", err |-> err,
                   ret |-> IF err = "" THEN Some(TRUE) ELSE None ]
    /\ CcFrame

\* ---- store_emotional_metadata
StoreEmotionalMetadataErr(c, caller, stream_id, emotion_type, intensity, vector_hash) ==
    IF stream_id = "" THEN "Stream ID required"
    ELSE IF emotion_type = "" THEN "Emotion type required"
    ELSE IF ~(intensity > 0 /\ intensity <= 100) THEN "Intensity must be 1-100"
    ELSE IF vector_hash = "" THEN "Vector hash required"
    ELSE IF stream_id \notin DOMAIN c.data_streams THEN "Stream does not exist"
    ELSE IF ~(caller = c.data_streams[stream_id].creator \/ is_ai_oracle(c, caller))
         THEN "Unauthorized caller"
    ELSE ""

\* format!("{}_emotion_{}", stream_id, emotion_type)
MetadataId(stream_id, emotion_type) == stream_id \o "_emotion_" \o emotion_type

StoreEmotionalMetadataState(c, stream_id, emotion_type, intensity, vector_hash, merkle_root, tags, biometric_data, timestamp) ==
    LET prefix == c.data_streams[stream_id].metadata
        entries == IF prefix \in DOMAIN c.stream_metadata
                   THEN c.stream_metadata[prefix] ELSE EmptyMap
    IN  [ c EXCEPT !.emotional_metadata =
                       Insert(@, MetadataId(stream_id, emotion_type),
                              [ emotion_type |-> emotion_type,
                                intensity |-> intensity,
                                vector_hash |-> vector_hash,
                                merkle_root |-> merkle_root,
                                tags |-> tags,
                                timestamp |-> timestamp,
                                biometric_data |-> biometric_data ]),
                   !.stream_metadata =
                       Insert(@, prefix,
                              Insert(entries, "emotion_" \o emotion_type, vector_hash)) ]

store_emotional_metadata(caller, stream_id, emotion_type, intensity, vector_hash, merkle_root, tags, biometric_data) ==
    LET err == StoreEmotionalMetadataErr(ccai, caller, stream_id, emotion_type, intensity,
                                         vector_hash) IN
    /\ ccai' = IF err = ""
               THEN StoreEmotionalMetadataState(ccai, stream_id, emotion_type, intensity,
                                                vector_hash, merkle_root, tags,
                                                biometric_data, now)
               ELSE ccai
    /\ result' = [ op |-> "store_emotional_metadata", err |-> err,
                   ret |-> IF err = "" THEN Some(MetadataId(stream_id, emotion_type))
                           ELSE None ]
    /\ CcFrame

\* ---- coordinate_federated_learning
CoordinateFederatedLearningErr(c, caller, participants, privacy_budget, convergence_threshold) ==
    IF ~(Len(participants) > 0) THEN "Participants required"
    ELSE IF ~(privacy_budget > 0) THEN "Privacy budget required"
    ELSE IF ~(convergence_threshold > 0) THEN "Convergence threshold required"
    ELSE IF ~is_ai_oracle(c, caller) THEN "Only AI oracles can coordinate federated learning"
    ELSE ""

\* The FederatedLearningCoord it returns.
CoordinateFederatedLearningReturn(round_id, participants, model_parameters, aggregation_method, privacy_budget, convergence_threshold) ==
    [ round_id |-> round_id,
      participants |-> participants,
      model_parameters |-> model_parameters,
      gradient_updates |-> << >>,
      aggregation_method |-> aggregation_method,
      privacy_budget |-> privacy_budget,
      convergence_threshold |-> convergence_threshold ]

\* It writes no field of self.
CoordinateFederatedLearningState(c, round_id, participants) == c

coordinate_federated_learning(caller, round_id, participants, model_parameters, aggregation_method, privacy_budget, convergence_threshold) ==
    LET err == CoordinateFederatedLearningErr(ccai, caller, participants, privacy_budget,
                                              convergence_threshold) IN
    /\ ccai' = IF err = "" THEN CoordinateFederatedLearningState(ccai, round_id, participants)
               ELSE ccai
    /\ result' = [ op |-> "coordinate_federated_learning", err |-> err,
                   ret |-> IF err = ""
                           THEN Some(CoordinateFederatedLearningReturn(
                                         round_id, participants, model_parameters,
                                         aggregation_method, privacy_budget,
                                         convergence_threshold))
                           ELSE None ]
    /\ CcFrame

\* ---- submit_gradient_update
\* The GradientUpdate it builds and drops.
CcGradientUpdate(participant, gradient_data, local_loss, update_timestamp, differential_privacy_noise) ==
    [ participant |-> participant,
      gradient_data |-> gradient_data,
      local_loss |-> local_loss,
      update_timestamp |-> update_timestamp,
      differential_privacy_noise |-> differential_privacy_noise ]

\* Mutant: the update is counted in the contract's state.
SubmitGradientUpdateState_Counted(c, round_id, gradient_update) ==
    [c EXCEPT !.stream_counter = @ + 1]

\* It writes no field of self.
SubmitGradientUpdateState(c, round_id, gradient_update) == c

submit_gradient_update(caller, round_id, gradient_data, local_loss, differential_privacy_noise) ==
    /\ ccai' = SubmitGradientUpdateState(
                   ccai, round_id,
                   CcGradientUpdate(caller, gradient_data, local_loss, now,
                                    differential_privacy_noise))
    /\ result' = [op |-> "submit_gradient_update", err |-> "", ret |-> Some(TRUE)]
    /\ CcFrame

\* ---- admin functions: only the contract's own account may call them.
\* authorize_bridge without the check of the caller.
authorize_bridge_AnyCaller(caller, account) ==
    /\ ccai' = [ccai EXCEPT !.authorized_bridges = Insert(@, account, TRUE)]
    /\ result' = [op |-> "authorize_bridge", err |-> "", ret |-> None]
    /\ CcFrame

authorize_bridge(caller, account) ==
    LET err == IF caller # CcContractAccount THEN "Only contract can authorize bridges"
               ELSE "" IN
    /\ ccai' = IF err = ""
               THEN [ccai EXCEPT !.authorized_bridges = Insert(@, account, TRUE)]
               ELSE ccai
    /\ result' = [op |-> "authorize_bridge", err |-> err, ret |-> None]
    /\ CcFrame

authorize_ai_oracle(caller, account) ==
    LET err == IF caller # CcContractAccount THEN "Only contract can authorize oracles"
               ELSE "" IN
    /\ ccai' = IF err = ""
               THEN [ccai EXCEPT !.ai_oracles = Insert(@, account, TRUE)]
               ELSE ccai
    /\ result' = [op |-> "authorize_ai_oracle", err |-> err, ret |-> None]
    /\ CcFrame

update_chain_mapping(caller, chain_name, chain_id) ==
    LET err == IF caller # CcContractAccount THEN "Only contract can update chain mappings"
               ELSE "" IN
    /\ ccai' = IF err = ""
               THEN [ccai EXCEPT !.chain_ids = Insert(@, chain_name, chain_id)]
               ELSE ccai
    /\ result' = [op |-> "update_chain_mapping", err |-> err, ret |-> None]
    /\ CcFrame

\* ---- view functions
get_stream_data(c, stream_id) == Get(c.data_streams, stream_id)
get_ai_data_packet(c, packet_id) == Get(c.ai_data_packets, packet_id)
get_emotional_metadata(c, metadata_id) == Get(c.emotional_metadata, metadata_id)
get_active_streams_count(c) == Len(c.active_stream_ids)

\* A u64 near either end of its range is kept as the integer nearest to 0 that
\* is congruent to it modulo 2^64: 0, 1, 2, ... and -1 for u64::MAX, -2 for
\* u64::MAX - 1.  On these the wrapped sum is the sum of the integers.
U64Lt(a, b) == IF (a < 0) = (b < 0) THEN a < b ELSE b < 0

U64AddOverflows(a, b) == (a < 0 /\ b < 0) \/ ((a < 0) # (b < 0) /\ a + b >= 0)

U64WrappingAdd(a, b) == a + b

U64Min(a, b) == IF U64Lt(b, a) THEN b ELSE a

\* from_index + limit is a plain u64 addition: a build with overflow checks
\* panics when it overflows, a build without them wraps.
GetStreamIdsErr(c, from_index, limit, overflow_checks) ==
    IF ~U64Lt(from_index, Len(c.active_stream_ids)) THEN ""
    ELSE IF overflow_checks /\ U64AddOverflows(from_index, limit)
    THEN "attempt to add with overflow"
    ELSE ""

GetStreamIdsReturn(c, from_index, limit) ==
    LET total == Len(c.active_stream_ids)
        end_index == U64Min(U64WrappingAdd(from_index, limit), total)
    IN  IF ~U64Lt(from_index, total) THEN << >>
        ELSE [i \in 1..(IF U64Lt(from_index, end_index) THEN end_index - from_index ELSE 0) |->
                 c.active_stream_ids[from_index + i]]

get_stream_ids(from_index, limit, overflow_checks) ==
    LET err == GetStreamIdsErr(ccai, from_index, limit, overflow_checks) IN
    /\ ccai' = ccai
    /\ result' = [op |-> "get_stream_ids", err |-> err,
                  ret |-> IF err = "" THEN GetStreamIdsReturn(ccai, from_index, limit)
                          ELSE None]
    /\ CcFrame

\* from_index and limit: small values and the two largest u64.
CcIndexes == {0, 1, 2, 3, -1, -2}

(***************************************************************************)
(* src/solana-program/programs/cross-chain-ai: the Solana cross_chain_ai   *)
(* program.  solcc holds the program's accounts by kind and address.  The  *)
(* ai_oracles account of an instruction is an unchecked AccountInfo, so    *)
(* the list it holds is an input of the call.                              *)
(***************************************************************************)
SolCcCoordAccounts == {"coordA", "coordB"}
SolCcRoundIds == {1, 2}
SolCcParticipants == {<< >>, <<"userX">>}
SolCcOracleLists == {<< >>, <<"userX">>}
SolCcGradientData == <<9, 9>>
SolCcModelParameters == <<3>>

\* Bound: the gradient updates of one FederatedLearningCoord account.
MaxUpdates == 2

\* #[account(init, payer = coordinator, space = 10000)]
FEDERATED_COORD_SPACE == 10000

SolCcFrame == UNCHANGED <<now, contract, gov, sol, fvm, simple, ccai, client>>

SolCcInit ==
    [ data_streams |-> EmptyMap,
      ai_packets |-> EmptyMap,
      emotional_metadata |-> EmptyMap,
      federated_coords |-> EmptyMap ]

RECURSIVE SolCcUpdatesSize(_)
\* The Borsh size of the elements of a Vec<GradientUpdate>.
SolCcUpdatesSize(updates) ==
    IF updates = << >> THEN 0
    ELSE 32 + (4 + Len(Head(updates).gradient_data)) + 4 + 8 + 4
         + SolCcUpdatesSize(Tail(updates))

\* The bytes a FederatedLearningCoord account needs: discriminator and Borsh data.
SolCcCoordSize(coord) ==
    8 + 8 + (4 + 32 * Len(coord.participants)) + (4 + Len(coord.model_parameters))
      + (4 + Len(coord.aggregation_method)) + 4 + 4 + 8
      + (4 + SolCcUpdatesSize(coord.gradient_updates))

\* ---- coordinate_federated_learning
SolCoordinateErr(s, federated_coord, coordinator, ai_oracles, participants, privacy_budget, convergence_threshold) ==
    IF federated_coord \in DOMAIN s.federated_coords THEN "AccountAlreadyInUse"
    ELSE IF participants = << >> THEN "EmptyParticipants"
    ELSE IF ~(privacy_budget > 0) THEN "InvalidPrivacyBudget"
    ELSE IF ~(convergence_threshold > 0) THEN "InvalidConvergenceThreshold"
    ELSE IF coordinator \notin Range(ai_oracles) THEN "UnauthorizedCoordinator"
    ELSE ""

SolCoordinateState(s, federated_coord, round_id, participants, model_parameters, aggregation_method, privacy_budget, convergence_threshold, timestamp) ==
    [ s EXCEPT !.federated_coords =
          Insert(@, federated_coord,
                 [ round_id |-> round_id,
                   participants |-> participants,
                   model_parameters |-> model_parameters,
                   aggregation_method |-> aggregation_method,
                   privacy_budget |-> privacy_budget,
                   convergence_threshold |-> convergence_threshold,
                   round_timestamp |-> timestamp,
                   gradient_updates |-> << >> ]) ]

sol_coordinate_federated_learning(federated_coord, coordinator, ai_oracles, round_id, participants, model_parameters, aggregation_method, privacy_budget, convergence_threshold) ==
    LET err == SolCoordinateErr(solcc, federated_coord, coordinator, ai_oracles,
                                participants, privacy_budget, convergence_threshold) IN
    /\ solcc' = IF err = ""
                THEN SolCoordinateState(solcc, federated_coord, round_id, participants,
                                        model_parameters, aggregation_method,
                                        privacy_budget, convergence_threshold, now)
                ELSE solcc
    /\ result' = [op |-> "coordinate_federated_learning", err |-> err]
    /\ SolCcFrame

\* ---- submit_gradient_update
\* Mutant: the update is kept only when round_id is the account's round.
SolSubmitState_RoundChecked(s, federated_coord, participant, round_id, gradient_data, local_loss, differential_privacy_noise, update_timestamp) ==
    IF s.federated_coords[federated_coord].round_id # round_id THEN s
    ELSE [ s EXCEPT !.federated_coords[federated_coord].gradient_updates =
               Append(@, [ participant |-> participant, gradient_data |-> gradient_data,
                           local_loss |-> local_loss,
                           update_timestamp |-> update_timestamp,
                           differential_privacy_noise |-> differential_privacy_noise ]) ]

SolSubmitState(s, federated_coord, participant, round_id, gradient_data, local_loss, differential_privacy_noise, update_timestamp) ==
    [ s EXCEPT !.federated_coords[federated_coord].gradient_updates =
          Append(@, [ participant |-> participant,
                      gradient_data |-> gradient_data,
                      local_loss |-> local_loss,
                      update_timestamp |-> update_timestamp,
                      differential_privacy_noise |-> differential_privacy_noise ]) ]

\* The account must hold a FederatedLearningCoord, and what the handler leaves in
\* it must fit the space the account was created with.
SolSubmitErr(s, federated_coord, participant, round_id, gradient_data, local_loss, differential_privacy_noise, update_timestamp) ==
    IF federated_coord \notin DOMAIN s.federated_coords THEN "AccountNotInitialized"
    ELSE IF SolCcCoordSize(
                SolSubmitState(s, federated_coord, participant, round_id, gradient_data,
                               local_loss, differential_privacy_noise,
                               update_timestamp).federated_coords[federated_coord])
            > FEDERATED_COORD_SPACE
         THEN "AccountDidNotSerialize"
    ELSE ""

sol_submit_gradient_update(federated_coord, participant, round_id, gradient_data, local_loss, differential_privacy_noise) ==
    LET err == SolSubmitErr(solcc, federated_coord, participant, round_id, gradient_data,
                            local_loss, differential_privacy_noise, now) IN
    /\ err = "" => Len(solcc.federated_coords[federated_coord].gradient_updates) < MaxUpdates
    /\ solcc' = IF err = ""
                THEN SolSubmitState(solcc, federated_coord, participant, round_id,
                                    gradient_data, local_loss, differential_privacy_noise,
                                    now)
                ELSE solcc
    /\ result' = [op |-> "submit_gradient_update", err |-> err]
    /\ SolCcFrame

\* ---------------------------------------------------------------------------
\* The Solana cross_chain_ai program, data streams
\*
\* solcc.data_streams, solcc.ai_packets and solcc.emotional_metadata are the
\* DataStream, AIPacket and EmotionalMetadata accounts by address.  An
\* instruction that returns an error commits nothing.  The authorized_bridges
\* and ai_oracles accounts are unchecked accounts the caller passes; they are
\* the list of keys the instruction reads from them.
\* ---------------------------------------------------------------------------
SolCcStreamAccounts == {"dsA"}
SolCcPacketAccounts == {"pkt1", "pkt2"}
SolCcMetadataAccounts == {"emA"}
SolCcStreamIds == {"", "s1", "s2"}
SolCcChains == {"", "solana", "near"}
SolCcIpfsHashes == {"", "Qm1"}
SolCcPacketIds == {"", "p1"}
SolCcDataTypes == {"", "inference"}
SolCcConfidences == {0, 1, 100, 101}
SolCcIntensities == {0, 50}
SolCcKeyLists == {<< >>, <<"userY">>}
SolCcEmotionTypes == {"", "joy"}
SolCcVectorHashes == {"", "vh1"}

\* The error initialize_stream returns, "" when it succeeds.
SolInitializeStreamErr(s, data_stream, creator, stream_id, source_chain, target_chain, ipfs_hash) ==
    IF ContainsKey(s.data_streams, data_stream) THEN "AccountAlreadyInUse"
    ELSE IF stream_id = "" THEN "EmptyStreamId"
    ELSE IF source_chain = "" THEN "EmptySourceChain"
    ELSE IF target_chain = "" THEN "EmptyTargetChain"
    ELSE IF ipfs_hash = "" THEN "EmptyIpfsHash"
    ELSE IF source_chain = target_chain THEN "SameSourceTarget"
    ELSE ""

\* The accounts after a successful initialize_stream.
SolInitializeStreamState(s, data_stream, creator, stream_id, source_chain, target_chain, ipfs_hash, t) ==
    [s EXCEPT !.data_streams = Insert(@, data_stream,
        [ stream_id |-> stream_id,
          creator |-> creator,
          source_chain |-> source_chain,
          target_chain |-> target_chain,
          ipfs_hash |-> ipfs_hash,
          timestamp |-> t,
          active |-> TRUE,
          processed_packets |-> 0,
          total_confidence |-> 0,
          metadata_count |-> 0,
          metadata_keys |-> [i \in 1..10 |-> ""],
          metadata_values |-> [i \in 1..10 |-> ""] ])]

sol_initialize_stream(data_stream, creator, stream_id, source_chain, target_chain, ipfs_hash) ==
    LET err == SolInitializeStreamErr(solcc, data_stream, creator, stream_id,
                                      source_chain, target_chain, ipfs_hash) IN
    /\ solcc' = IF err = ""
                THEN SolInitializeStreamState(solcc, data_stream, creator, stream_id,
                                              source_chain, target_chain, ipfs_hash, now)
                ELSE solcc
    /\ result' = [op |-> "initialize_stream", err |-> err]
    /\ SolCcFrame

\* process_ai_packet without its check of the confidence.
SolProcessAiPacketErr_AnyConfidence(s, data_stream, ai_packet, caller, authorized_bridges, packet_id, stream_id, data_type, confidence) ==
    IF ~ContainsKey(s.data_streams, data_stream) THEN "AccountNotInitialized"
    ELSE IF ContainsKey(s.ai_packets, ai_packet) THEN "AccountAlreadyInUse"
    ELSE IF packet_id = "" THEN "EmptyPacketId"
    ELSE IF stream_id = "" THEN "EmptyStreamId"
    ELSE IF data_type = "" THEN "EmptyDataType"
    ELSE IF ~s.data_streams[data_stream].active THEN "StreamNotActive"
    ELSE IF s.data_streams[data_stream].stream_id # stream_id THEN "InvalidStreamId"
    ELSE IF ~(caller = s.data_streams[data_stream].creator
              \/ caller \in Range(authorized_bridges)) THEN "UnauthorizedCaller"
    ELSE ""

\* The error process_ai_packet returns, "" when it succeeds.
SolProcessAiPacketErr(s, data_stream, ai_packet, caller, authorized_bridges, packet_id, stream_id, data_type, confidence) ==
    IF ~ContainsKey(s.data_streams, data_stream) THEN "AccountNotInitialized"
    ELSE IF ContainsKey(s.ai_packets, ai_packet) THEN "AccountAlreadyInUse"
    ELSE IF packet_id = "" THEN "EmptyPacketId"
    ELSE IF stream_id = "" THEN "EmptyStreamId"
    ELSE IF data_type = "" THEN "EmptyDataType"
    ELSE IF ~(confidence > 0 /\ confidence <= 100) THEN "InvalidConfidence"
    ELSE IF ~s.data_streams[data_stream].active THEN "StreamNotActive"
    ELSE IF s.data_streams[data_stream].stream_id # stream_id THEN "InvalidStreamId"
    ELSE IF ~(caller = s.data_streams[data_stream].creator
              \/ caller \in Range(authorized_bridges)) THEN "UnauthorizedCaller"
    ELSE ""

\* The accounts after a successful process_ai_packet.
SolProcessAiPacketState(s, data_stream, ai_packet, packet_id, stream_id, data_type, confidence, t) ==
    LET stream == s.data_streams[data_stream] IN
    [s EXCEPT !.ai_packets = Insert(@, ai_packet,
                  [ packet_id |-> packet_id,
                    stream_id |-> stream_id,
                    data_type |-> data_type,
                    confidence |-> confidence,
                    timestamp |-> t ]),
              !.data_streams = Insert(@, data_stream,
                  [stream EXCEPT !.processed_packets = @ + 1,
                                 !.total_confidence = @ + confidence])]

sol_process_ai_packet(data_stream, ai_packet, caller, authorized_bridges, packet_id, stream_id, data_type, confidence) ==
    LET err == SolProcessAiPacketErr(solcc, data_stream, ai_packet, caller,
                                     authorized_bridges, packet_id, stream_id,
                                     data_type, confidence) IN
    /\ solcc' = IF err = ""
                THEN SolProcessAiPacketState(solcc, data_stream, ai_packet, packet_id,
                                             stream_id, data_type, confidence, now)
                ELSE solcc
    /\ result' = [op |-> "process_ai_packet", err |-> err]
    /\ SolCcFrame

\* The error store_emotional_metadata returns, "" when it succeeds.
SolStoreEmotionalMetadataErr(s, data_stream, emotional_metadata, caller, ai_oracles, stream_id, emotion_type, intensity, vector_hash) ==
    IF ~ContainsKey(s.data_streams, data_stream) THEN "AccountNotInitialized"
    ELSE IF ContainsKey(s.emotional_metadata, emotional_metadata) THEN "AccountAlreadyInUse"
    ELSE IF stream_id = "" THEN "EmptyStreamId"
    ELSE IF emotion_type = "" THEN "EmptyEmotionType"
    ELSE IF ~(intensity > 0 /\ intensity <= 100) THEN "InvalidIntensity"
    ELSE IF vector_hash = "" THEN "EmptyVectorHash"
    ELSE IF s.data_streams[data_stream].stream_id # stream_id THEN "InvalidStreamId"
    ELSE IF ~(caller = s.data_streams[data_stream].creator
              \/ caller \in Range(ai_oracles)) THEN "UnauthorizedCaller"
    ELSE ""

\* The accounts after a successful store_emotional_metadata: the metadata
\* account, and the next free metadata slot of the stream while one is left.
SolStoreEmotionalMetadataState(s, data_stream, emotional_metadata, stream_id, emotion_type, intensity, vector_hash, t) ==
    LET stream == s.data_streams[data_stream] IN
    [s EXCEPT !.emotional_metadata = Insert(@, emotional_metadata,
                  [ emotion_type |-> emotion_type,
                    intensity |-> intensity,
                    vector_hash |-> vector_hash,
                    timestamp |-> t ]),
              !.data_streams = Insert(@, data_stream,
                  IF stream.metadata_count < 10
                  THEN [stream EXCEPT
                          !.metadata_keys[stream.metadata_count + 1] = "emotion_" \o emotion_type,
                          !.metadata_values[stream.metadata_count + 1] = vector_hash,
                          !.metadata_count = @ + 1]
                  ELSE stream)]

sol_store_emotional_metadata(data_stream, emotional_metadata, caller, ai_oracles, stream_id, emotion_type, intensity, vector_hash) ==
    LET err == SolStoreEmotionalMetadataErr(solcc, data_stream, emotional_metadata,
                                            caller, ai_oracles, stream_id,
                                            emotion_type, intensity, vector_hash) IN
    /\ solcc' = IF err = ""
                THEN SolStoreEmotionalMetadataState(solcc, data_stream,
                                                    emotional_metadata, stream_id,
                                                    emotion_type, intensity,
                                                    vector_hash, now)
                ELSE solcc
    /\ result' = [op |-> "store_emotional_metadata", err |-> err]
    /\ SolCcFrame

\* ---------------------------------------------------------------------------
\* rust-client: lancedb_integration.rs and music_integration.rs
\*
\* client.emotional_vectors is the in-memory store of a LanceDBEngine; client.call
\* is the last call of one of the two pure functions with what it returned.
\* A string is the sequence of bytes as_bytes() yields, since the embedding
\* is computed from those bytes.
\* ---------------------------------------------------------------------------
ClientFrame == UNCHANGED <<now, result, contract, gov, sol, fvm, simple, ccai, solcc>>

\* ---------------------------------------------------------------------------
\* rust-client: multifusion_integration.rs
\*
\* client.engine is a MultifusionEngine.  A fusion id is a fresh UUID; it is
\* the number of the fusion here.  The vector, music and AI engines of the
\* optional features are outside the engine: whether their calls return Ok is
\* an input of start_fusion.
\* ---------------------------------------------------------------------------
EngineFrame == UNCHANGED <<now, contract, gov, sol, fvm, simple, ccai, solcc>>

MaxFusions == 2
MaxAssets == 2

EngineSessionIds == {"sess1", "sess2"}
EngineCreatedIds == {"sess1"}
EngineAssetIds == {"a1", "a2"}
EngineBlockchains == {"near"}
EngineStrategyNames == {"harmonic", "unknown"}
EngineSecondaryIds == {<< >>, <<"a2">>}

\* The configuration the engine is built with: one fusion strategy.
EngineConfig == [fusion_strategies |-> [name \in {"harmonic"} |-> [name |-> name]]]

\* MultifusionEngine::new
MultifusionEngineNew(config) ==
    [ config |-> config,
      active_sessions |-> EmptyMap,
      fusion_history |-> << >>,
      metrics |-> [ total_fusions |-> 0,
                    successful_fusions |-> 0,
                    failed_fusions |-> 0 ] ]

\* The engine after create_session: the session replaces one of the same id.
CreateSessionState(e, session_id, t) ==
    [e EXCEPT !.active_sessions = Insert(@, session_id,
        [ session_id |-> session_id,
          active_fusions |-> << >>,
          cross_chain_assets |-> << >>,
          fusion_metrics |-> e.metrics,
          created_at |-> t ])]

create_session(session_id) ==
    /\ client' = [client EXCEPT !.engine = CreateSessionState(@, session_id, now)]
    /\ result' = [op |-> "create_session", err |-> ""]
    /\ EngineFrame

AddCrossChainAssetErr(e, session_id) ==
    IF ContainsKey(e.active_sessions, session_id) THEN "" ELSE "Session not found"

AddCrossChainAssetState(e, session_id, asset) ==
    [e EXCEPT !.active_sessions[session_id].cross_chain_assets = Append(@, asset)]

add_cross_chain_asset(session_id, asset) ==
    LET err == AddCrossChainAssetErr(client.engine, session_id) IN
    /\ err = "" =>
          Len(client.engine.active_sessions[session_id].cross_chain_assets) < MaxAssets
    /\ client' = IF err = ""
                 THEN [client EXCEPT !.engine = AddCrossChainAssetState(@, session_id, asset)]
                 ELSE client
    /\ result' = [op |-> "add_cross_chain_asset", err |-> err]
    /\ EngineFrame

\* iter().find(|a| a.asset_id == asset_id): the assets of that id, in order.
EngineFindAssets(assets, asset_id) ==
    SelectSeq(assets, LAMBDA a : a.asset_id = asset_id)

\* The error start_fusion returns before it records the fusion, "" when none.
StartFusionErr(e, session_id, primary_asset_id, strategy_name) ==
    IF ~ContainsKey(e.active_sessions, session_id) THEN "Session not found"
    ELSE IF ~ContainsKey(e.config.fusion_strategies, strategy_name)
         THEN "Fusion strategy not found"
    ELSE IF EngineFindAssets(e.active_sessions[session_id].cross_chain_assets,
                             primary_asset_id) = << >>
         THEN "Primary asset not found"
    ELSE ""

RECURSIVE EngineSecondaryAssets(_, _)
\* The first asset of each secondary id the session has, in the order of the ids.
EngineSecondaryAssets(assets, ids) ==
    IF ids = << >> THEN << >>
    ELSE LET found == EngineFindAssets(assets, Head(ids)) IN
         (IF found = << >> THEN << >> ELSE <<Head(found)>>)
         \o EngineSecondaryAssets(assets, Tail(ids))

\* The engine once start_fusion has pushed the pending fusion and counted it.
StartFusionState(e, session_id, primary_asset_id, secondary_asset_ids, strategy_name, t) ==
    LET assets == e.active_sessions[session_id].cross_chain_assets
        fusion == [ fusion_id |-> e.metrics.total_fusions + 1,
                    primary_asset |-> Head(EngineFindAssets(assets, primary_asset_id)),
                    secondary_assets |-> EngineSecondaryAssets(assets, secondary_asset_ids),
                    fusion_strategy |-> e.config.fusion_strategies[strategy_name],
                    start_time |-> t,
                    status |-> "Pending",
                    progress |-> 0,
                    result |-> None ]
    IN  [e EXCEPT !.active_sessions[session_id].active_fusions = Append(@, fusion),
                  !.metrics.total_fusions = @ + 1]

\* synthesize_fusion_result
SynthesizeFusionResult(fusion, t) ==
    [ fused_asset |-> [ asset_id |-> fusion.fusion_id,
                        blockchain |-> fusion.primary_asset.blockchain,
                        token_id |-> "fused_" \o fusion.primary_asset.token_id ],
      completion_time |-> t ]

\* Mutant: process_fusion counts the success without keeping the result.
ProcessFusionState_NoHistory(e, session_id, engines_ok, t) ==
    LET n == Len(e.active_sessions[session_id].active_fusions)
        fusion == e.active_sessions[session_id].active_fusions[n]
    IN  IF ~engines_ok
        THEN [e EXCEPT !.active_sessions[session_id].active_fusions[n].status = "InProgress",
                       !.active_sessions[session_id].active_fusions[n].progress = 10]
        ELSE [e EXCEPT !.active_sessions[session_id].active_fusions[n].status = "Completed",
                       !.active_sessions[session_id].active_fusions[n].progress = 100,
                       !.active_sessions[session_id].active_fusions[n].result =
                           Some(SynthesizeFusionResult(fusion, t)),
                       !.metrics.successful_fusions = @ + 1]

\* The engine after process_fusion of the session's newest fusion: when a call
\* of an outside engine fails the fusion stays in progress and nothing is
\* counted; otherwise the result is stored, counted and pushed on the history.
ProcessFusionState(e, session_id, engines_ok, t) ==
    LET n == Len(e.active_sessions[session_id].active_fusions)
        fusion == e.active_sessions[session_id].active_fusions[n]
    IN  IF ~engines_ok
        THEN [e EXCEPT !.active_sessions[session_id].active_fusions[n].status = "InProgress",
                       !.active_sessions[session_id].active_fusions[n].progress = 10]
        ELSE [e EXCEPT !.active_sessions[session_id].active_fusions[n].status = "Completed",
                       !.active_sessions[session_id].active_fusions[n].progress = 100,
                       !.active_sessions[session_id].active_fusions[n].result =
                           Some(SynthesizeFusionResult(fusion, t)),
                       !.metrics.successful_fusions = @ + 1,
                       !.fusion_history = Append(@, SynthesizeFusionResult(fusion, t))]

start_fusion(session_id, primary_asset_id, secondary_asset_ids, strategy_name, engines_ok) ==
    LET err == StartFusionErr(client.engine, session_id, primary_asset_id, strategy_name) IN
    /\ err = "" => client.engine.metrics.total_fusions < MaxFusions
    /\ client' = IF err = ""
                 THEN [client EXCEPT !.engine =
                          ProcessFusionState(
                              StartFusionState(@, session_id, primary_asset_id,
                                               secondary_asset_ids, strategy_name, now),
                              session_id, engines_ok, now)]
                 ELSE client
    /\ result' = [op |-> "start_fusion",
                  err |-> IF err # "" THEN err
                          ELSE IF engines_ok THEN "" ELSE "engine error"]
    /\ EngineFrame

\* ---------------------------------------------------------------------------
\* rust-client: the state of the client, and lancedb_integration.rs
\* ---------------------------------------------------------------------------
ClientNew ==
    [ emotional_vectors |-> << >>, call |-> None,
      engine |-> MultifusionEngineNew(EngineConfig) ]

MaxVectors == 1

ClientVectorIds == {"vec1"}

\* insert_emotional_vector pushes the vector on the engine's in-memory list.
insert_emotional_vector(id) ==
    /\ Len(client.emotional_vectors) < MaxVectors
    /\ client' = [client EXCEPT !.emotional_vectors = Append(@, id)]
    /\ ClientFrame

StrAssetOn == <<32, 97, 115, 115, 101, 116, 32, 111, 110, 32>>                  \* " asset on "

StrBlockchain == <<32, 98, 108, 111, 99, 107, 99, 104, 97, 105, 110>>           \* " blockchain"

StrNamed == <<32, 110, 97, 109, 101, 100, 32>>                                  \* " named "

StrDescribedAs == <<32, 100, 101, 115, 99, 114, 105, 98, 101, 100, 32, 97, 115, 32>>   \* " described as "

StrWithEmotionalValence == <<32, 119, 105, 116, 104, 32, 101, 109, 111, 116, 105, 111, 110, 97, 108, 32, 118, 97, 108, 101, 110, 99, 101, 32>>   \* " with emotional valence "

StrArousal == <<32, 97, 114, 111, 117, 115, 97, 108, 32>>                       \* " arousal "

StrDominance == <<32, 100, 111, 109, 105, 110, 97, 110, 99, 101, 32>>           \* " dominance "

\* A serde_json::Value: a string (its bytes) or a number.
JsonString(bytes) == [kind |-> "string", str |-> bytes, num |-> 0]

JsonNumber(n) == [kind |-> "number", str |-> << >>, num |-> n]

\* Value::as_str: Some only for a JSON string.
as_str(v) == IF v.kind = "string" THEN Some(v.str) ELSE None

\* metadata.get(key).and_then(|v| v.as_str())
MetadataStr(metadata, key) == IF key \in DOMAIN metadata THEN as_str(metadata[key]) ELSE None

RECURSIVE Digits(_)
\* The decimal digits of a natural number, as ASCII bytes.
Digits(n) == IF n < 10 THEN <<48 + n>> ELSE Digits(n \div 10) \o <<48 + (n % 10)>>

\* format!("{:.2}", x) for x given in thousandths: sign, integer part, a point
\* and two decimals, rounded to the nearest hundredth.  The inputs used are not
\* half-way cases, whose rounding depends on the binary value of the f32.
Fmt2(x) ==
    LET a == IF x < 0 THEN 0 - x ELSE x
        h == (a + 5) \div 10
    IN  (IF x < 0 THEN <<45>> ELSE << >>)
        \o Digits(h \div 100) \o <<46, 48 + ((h \div 10) % 10), 48 + (h % 10)>>

\* The same text with one more metadata entry, 'symbol', appended to it.
TextRepresentation_WithSymbol(asset_type, blockchain, metadata, emotional_context) ==
    asset_type \o StrAssetOn \o blockchain \o StrBlockchain
    \o (IF MetadataStr(metadata, "name") # None
        THEN StrNamed \o MetadataStr(metadata, "name")[1] ELSE << >>)
    \o (IF MetadataStr(metadata, "description") # None
        THEN StrDescribedAs \o MetadataStr(metadata, "description")[1] ELSE << >>)
    \o (IF MetadataStr(metadata, "symbol") # None
        THEN StrNamed \o MetadataStr(metadata, "symbol")[1] ELSE << >>)
    \o (IF emotional_context # None
        THEN StrWithEmotionalValence \o Fmt2(emotional_context[1].valence)
             \o StrArousal \o Fmt2(emotional_context[1].arousal)
             \o StrDominance \o Fmt2(emotional_context[1].dominance)
        ELSE << >>)

\* text_representation: "<asset_type> asset on <blockchain> blockchain", then
\* " named <name>" and " described as <description>" for the metadata entries
\* that are strings, then the emotional context with two decimals.
TextRepresentation(asset_type, blockchain, metadata, emotional_context) ==
    asset_type \o StrAssetOn \o blockchain \o StrBlockchain
    \o (IF MetadataStr(metadata, "name") # None
        THEN StrNamed \o MetadataStr(metadata, "name")[1] ELSE << >>)
    \o (IF MetadataStr(metadata, "description") # None
        THEN StrDescribedAs \o MetadataStr(metadata, "description")[1] ELSE << >>)
    \o (IF emotional_context # None
        THEN StrWithEmotionalValence \o Fmt2(emotional_context[1].valence)
             \o StrArousal \o Fmt2(emotional_context[1].arousal)
             \o StrDominance \o Fmt2(emotional_context[1].dominance)
        ELSE << >>)

EMBEDDING_DIM == 512

\* Element i (from 0) before normalisation.  An f32 is kept as the expression
\* that computes it: the byte over 255.0, or sin(i * 0.1) * 0.5 + 0.5.
EmbeddingElement(text_bytes, i) ==
    IF i < Len(text_bytes)
    THEN [f |-> "byte / 255.0", x |-> text_bytes[(i % Len(text_bytes)) + 1]]
    ELSE [f |-> "sin(i * 0.1) * 0.5 + 0.5", x |-> i]

\* magnitude > 0.0: some element is not zero (sin(i * 0.1) is never -1 for
\* an i below 512, so an element past the text is positive).
MagnitudePositive(embedding) ==
    \E i \in 1..Len(embedding) :
        embedding[i].f = "sin(i * 0.1) * 0.5 + 0.5" \/ embedding[i].x > 0

\* Every element divided by the magnitude of the whole vector when that is
\* positive: the element keeps its expression and records the division.
Normalize(embedding) ==
    LET positive == MagnitudePositive(embedding)
    IN  [i \in 1..Len(embedding) |->
            [f |-> embedding[i].f, x |-> embedding[i].x,
             divided_by_magnitude |-> positive]]

generate_blockchain_embedding(asset_type, blockchain, metadata, emotional_context) ==
    LET text_bytes == TextRepresentation(asset_type, blockchain, metadata,
                                         emotional_context)
    IN  Normalize([i \in 1..EMBEDDING_DIM |-> EmbeddingElement(text_bytes, i - 1)])

ClientAssetTypes == {<<110, 102, 116>>, <<116, 111, 107, 101, 110>>}            \* "nft", "token"

ClientBlockchains == {<<110, 101, 97, 114>>}                                    \* "near"

\* 'name' is absent, a string ("Aria") or a number; 'description' and 'symbol'
\* are absent or a string ("art", "ARX").
ClientNames == {None, Some(JsonString(<<65, 114, 105, 97>>)), Some(JsonNumber(7))}

ClientDescriptions == {None, Some(JsonString(<<97, 114, 116>>))}

ClientSymbols == {None, Some(JsonString(<<65, 82, 88>>))}

ClientMetadataOf(name, description, symbol) ==
    [k \in (IF name # None THEN {"name"} ELSE {})
           \cup (IF description # None THEN {"description"} ELSE {})
           \cup (IF symbol # None THEN {"symbol"} ELSE {}) |->
        IF k = "name" THEN name[1] ELSE IF k = "description" THEN description[1]
        ELSE symbol[1]]

ClientMetadata == {ClientMetadataOf(n, d, s) : n \in ClientNames, d \in ClientDescriptions, s \in ClientSymbols}

\* Emotional contexts in thousandths; the first two differ only past the
\* second decimal.
ClientEmotionalContexts == {None, Some([valence |-> 854, arousal |-> -4, dominance |-> 1250]), Some([valence |-> 851, arousal |-> -4, dominance |-> 1250])}

\* A call of the free function: the engine is neither an argument nor touched.
call_generate_blockchain_embedding(asset_type, blockchain, metadata, emotional_context) ==
    /\ client' = [client EXCEPT !.call = Some(
            [fn |-> "generate_blockchain_embedding",
             args |-> <<asset_type, blockchain, metadata, emotional_context>>,
             ret |-> generate_blockchain_embedding(asset_type, blockchain, metadata,
                                                   emotional_context)])]
    /\ ClientFrame

\* MusicEngine::categorize_emotion, valence and arousal in hundredths:
\* match (valence > 0.0, arousal > 0.5).
categorize_emotion(valence, arousal) ==
    IF valence > 0
    THEN (IF arousal > 50 THEN "excited" ELSE "happy")
    ELSE (IF arousal > 50 THEN "anxious" ELSE "calm")

\* The four inputs of test_emotion_categorization and the class boundaries.
ClientValences == {-60, 0, 10, 70, 80}

ClientArousals == {20, 30, 50, 80, 90}

call_categorize_emotion(valence, arousal) ==
    /\ client' = [client EXCEPT !.call = Some(
            [fn |-> "categorize_emotion", args |-> <<valence, arousal>>,
             ret |-> categorize_emotion(valence, arousal)])]
    /\ ClientFrame

Init ==
    /\ now = 0
    /\ result = NoCall
    /\ contract = ContractNew("alice.near")
    /\ gov = GovNew("alice.near")
    /\ sol = EmptyMap
    /\ fvm = None
    /\ simple = SimpleNew("alice.near")
    /\ ccai = CcNew
    /\ solcc = SolCcInit
    /\ client = ClientNew

\* The governance contract while time passes: tokens are minted, proposals
\* are created with a voting period and votes are cast before and after its end.
NextGovTime ==
    \/ Tick
    \/ \E caller \in Accounts, token_id \in GovTokenIds :
          mint_soulbound_token(caller, token_id, CHOOSE m \in GovMetadata : TRUE,
                               GovBiometricHash)
    \/ \E proposal_id \in GovProposalIds, voting_period \in GovVotingPeriods :
          create_governance_proposal("alice.near", proposal_id, voting_period)
    \/ \E caller \in Accounts, token_id \in GovTokenIds, proposal_id \in GovProposalIds,
          vote_type \in {"For", "Against"}, ai_confidence \in GovConfidences :
          vote_on_proposal(caller, token_id, proposal_id, vote_type, ai_confidence)

SpecGovTime == Init /\ [][NextGovTime]_vars

\* The governance contract, every method that writes: any account calls any of
\* them on any token and proposal.
NextGovAll ==
    \/ \E caller \in Accounts, token_id \in GovTokenIds :
          mint_soulbound_token(caller, token_id, CHOOSE m \in GovMetadata : TRUE,
                               GovBiometricHash)
    \/ \E caller \in Accounts : record_ai_contribution(caller, "a", GovContribution)
    \/ \E proposal_id \in GovProposalIds :
          create_governance_proposal("bob.near", proposal_id, 1)
    \/ \E caller \in Accounts, token_id \in GovTokenIds, proposal_id \in GovProposalIds,
          vote_type \in {"For", "Abstain"}, ai_confidence \in GovConfidences :
          vote_on_proposal(caller, token_id, proposal_id, vote_type, ai_confidence)
    \/ register_ai_model("bob.near", "c", "classifier")
    \/ submit_federated_update("bob.near", "a", "c")
    \/ \E caller \in Accounts :
          record_cross_chain_activity(caller, "a_b", "solana", "mint", "0xabc", 7)

SpecGovAll == Init /\ [][NextGovAll]_vars

\* No SBT method reads the clock except to stamp what it stores, so the clock
\* stands still in this specification.
NextSbt ==
    \/ \E caller \in Accounts, token_id \in SbtTokenIds, receiver_id \in Accounts,
          emotion_data \in SbtEmotions, quality_score \in SbtQualities,
          biometric_hash \in SbtHashes :
          \/ nft_mint(caller, token_id, receiver_id, emotion_data, quality_score,
                      biometric_hash)
          \/ mint_soulbound(caller, token_id, receiver_id, emotion_data, quality_score,
                            biometric_hash)
    \/ \E caller \in Accounts, receiver_id \in Accounts, token_id \in SbtTokenIds :
          \/ nft_transfer(caller, receiver_id, token_id)
          \/ nft_transfer_call(caller, receiver_id, token_id)

SpecSbt == Init /\ [][NextSbt]_vars

\* The governance contract, minting and the owner-only methods: every account
\* tries every method on every token; one proposal is opened and voted For.
NextGov ==
    \/ \E caller \in Accounts, token_id \in GovTokenIds, metadata \in GovMetadata :
          mint_soulbound_token(caller, token_id, metadata, GovBiometricHash)
    \/ \E caller \in Accounts, token_id \in GovTokenIds :
          record_ai_contribution(caller, token_id, GovContribution)
    \/ create_governance_proposal("alice.near", "c", 1)
    \/ \E caller \in Accounts, token_id \in GovTokenIds, proposal_id \in GovProposalIds,
          ai_confidence \in GovConfidences :
          vote_on_proposal(caller, token_id, proposal_id, "For", ai_confidence)
    \/ \E caller \in Accounts, token_id \in GovTokenIds :
          record_cross_chain_activity(caller, token_id, "solana", "mint", "0xabc", 7)

SpecGov == Init /\ [][NextGov]_vars

\* The governance contract, proposals and votes: every account creates proposals
\* and casts every kind of vote with every token.
NextGovVote ==
    \/ \E caller \in Accounts, token_id \in GovTokenIds :
          mint_soulbound_token(caller, token_id, CHOOSE m \in GovMetadata : TRUE,
                               GovBiometricHash)
    \/ \E caller \in Accounts, proposal_id \in GovProposalIds,
          voting_period \in GovVotingPeriods :
          create_governance_proposal(caller, proposal_id, voting_period)
    \/ \E caller \in Accounts, token_id \in GovTokenIds, proposal_id \in GovProposalIds,
          vote_type \in GovVoteTypes, ai_confidence \in GovConfidences :
          vote_on_proposal(caller, token_id, proposal_id, vote_type, ai_confidence)

SpecGovVote == Init /\ [][NextGovVote]_vars

\* The Solana program: any signer sends any instruction for any account address,
\* and the cluster clock advances.
NextSol ==
    \/ Tick
    \/ \E nft_account \in SolAccounts, user \in SolUsers :
          initialize(nft_account, user)
    \/ \E nft_account \in SolAccounts, user \in SolUsers, emotion_data \in SolEmotions,
          quality_score \in SolQualities, biometric_hash \in SolHashes,
          cross_chain_id \in SolCrossChainIds :
          mint_biometric_nft(nft_account, user, emotion_data, quality_score,
                             biometric_hash, cross_chain_id)
    \/ \E nft_account \in SolAccounts, user \in SolUsers, emotion_data \in SolEmotions :
          update_emotion_data(nft_account, user, emotion_data)
    \/ \E nft_account \in SolAccounts, user \in SolUsers, new_owner \in SolUsers :
          sol_transfer_nft(nft_account, user, new_owner)

SpecSol == Init /\ [][NextSol]_vars

\* The Filecoin actor: any caller sends any method number.
NextFvm ==
    \E params \in FvmMethods, caller \in FvmCallers, put_ok \in BOOLEAN :
        invoke(params, caller, put_ok)

SpecFvm == Init /\ [][NextFvm]_vars

\* SimpleNftContract: any account mints, with or without enough deposit.
NextSimple ==
    \/ Tick
    \/ \E caller \in Accounts, token_id \in SimpleTokenIds, metadata \in SimpleMetadata,
          deposit_ok \in BOOLEAN :
          mint_nft(caller, token_id, metadata, deposit_ok)
    \/ \E caller \in SimpleRecorders, token_id \in SimpleTokenIds,
          interaction \in SimpleInteractions :
          record_interaction(caller, token_id, interaction)

SpecSimple == Init /\ [][NextSimple]_vars

\* CrossChainAIML, the streams: alice creates a stream with any arguments and bob
\* one with the same id; the contract's account registers a chain and an oracle;
\* both accounts use the stream.
NextCcStream ==
    \/ \E stream_id \in {"", "stream1"}, source_chain \in CcChains,
          target_chain \in CcChains, ipfs_hash \in CcIpfsHashes :
          create_data_stream("alice.near", stream_id, source_chain, target_chain, ipfs_hash,
                             CcEncryptedData, CcEpoch)
    \/ create_data_stream("bob.near", "stream1", "near", "solana", "QmHash1",
                          CcEncryptedData, CcEpoch)
    \/ \E caller \in CcCallers : update_chain_mapping(caller, "bitcoin", "0")
    \/ \E caller \in CcCallers : authorize_ai_oracle(caller, "bob.near")
    \/ \E caller \in Accounts :
          store_emotional_metadata(caller, "stream1", "joy", 50, "vector1", "root1",
                                   <<"tag">>, None)
    \/ \E caller \in Accounts :
          process_ai_data(caller, "packet1", "stream1", "inference", CcAiData, CcSignature,
                          100, "v1", CHOOSE r \in CcInferenceResults : TRUE)

SpecCcStream == Init /\ [][NextCcStream]_vars

\* CrossChainAIML, the packets: one stream, a bridge and an oracle; any account
\* sends any packet, coordinates a round and submits gradients.
NextCcPacket ==
    \/ \E caller \in Accounts :
          create_data_stream(caller, "stream1", "near", "solana", "QmHash1",
                             CcEncryptedData, CcEpoch)
    \/ \E caller \in CcCallers : authorize_bridge(caller, "bob.near")
    \/ \E caller \in CcCallers : authorize_ai_oracle(caller, "alice.near")
    \/ \E caller \in Accounts, packet_id \in CcPacketIds, stream_id \in CcStreamIds,
          data_type \in {"", "inference"}, confidence \in CcConfidences,
          model_version \in CcModelVersions :
          process_ai_data(caller, packet_id, stream_id, data_type, CcAiData, CcSignature,
                          confidence, model_version, CHOOSE r \in CcInferenceResults : TRUE)
    \/ \E caller \in Accounts, data_type \in CcDataTypes \ {""}, confidence \in {1, 100},
          inference_result \in CcInferenceResults :
          process_ai_data(caller, "packet1", "stream1", data_type, CcAiData, CcSignature,
                          confidence, "v1", inference_result)
    \/ \E caller \in Accounts, round_id \in CcRoundIds, participants \in CcParticipants,
          privacy_budget \in CcPositiveOrZero, convergence_threshold \in CcPositiveOrZero :
          coordinate_federated_learning(caller, round_id, participants, CcAiData, "fedavg",
                                        privacy_budget, convergence_threshold)
    \/ \E caller \in Accounts, round_id \in CcRoundIds :
          submit_gradient_update(caller, round_id, CcAiData, 25, 1)

SpecCcPacket == Init /\ [][NextCcPacket]_vars

\* CrossChainAIML, the admin functions: any account, the contract's own included,
\* authorizes bridges and oracles and maps chains, while streams are created
\* and packets are sent.
NextCcAdmin ==
    \/ \E caller \in CcCallers, account \in Accounts : authorize_bridge(caller, account)
    \/ \E caller \in CcCallers, account \in Accounts : authorize_ai_oracle(caller, account)
    \/ \E caller \in CcCallers, chain_name \in {"bitcoin", "near"}, chain_id \in {"0", "397"} :
          update_chain_mapping(caller, chain_name, chain_id)
    \/ \E caller \in Accounts, target_chain \in {"solana", "bitcoin"} :
          create_data_stream(caller, "stream1", "near", target_chain, "QmHash1",
                             CcEncryptedData, CcEpoch)
    \/ \E caller \in Accounts :
          process_ai_data(caller, "packet1", "stream1", "inference", CcAiData, CcSignature,
                          100, "v1", CHOOSE r \in CcInferenceResults : TRUE)

SpecCcAdmin == Init /\ [][NextCcAdmin]_vars

\* CrossChainAIML, the listing of streams: streams are created and any page
\* of their ids is asked for, by a build with or without overflow checks.
NextCcView ==
    \/ \E caller \in Accounts, stream_id \in {"stream1", "stream2"}, source_chain \in {"near", "ethereum"} :
          create_data_stream(caller, stream_id, source_chain, "solana", "QmHash1",
                             CcEncryptedData, CcEpoch)
    \/ \E from_index \in CcIndexes, limit \in CcIndexes, overflow_checks \in BOOLEAN :
          get_stream_ids(from_index, limit, overflow_checks)

SpecCcView == Init /\ [][NextCcView]_vars

\* The Solana cross_chain_ai program, federated learning: any signer opens a round
\* account and any signer submits updates to any account with any round_id.
NextSolCc ==
    \/ \E federated_coord \in SolCcCoordAccounts, coordinator \in SolUsers,
          ai_oracles \in SolCcOracleLists, round_id \in SolCcRoundIds,
          participants \in SolCcParticipants, privacy_budget \in CcPositiveOrZero,
          convergence_threshold \in CcPositiveOrZero :
          sol_coordinate_federated_learning(federated_coord, coordinator, ai_oracles,
                                            round_id, participants, SolCcModelParameters,
                                            "fedavg", privacy_budget, convergence_threshold)
    \/ \E federated_coord \in SolCcCoordAccounts, participant \in SolUsers,
          round_id \in SolCcRoundIds :
          sol_submit_gradient_update(federated_coord, participant, round_id,
                                     SolCcGradientData, 25, 1)

SpecSolCc == Init /\ [][NextSolCc]_vars

\* The data-stream instructions of the Solana cross_chain_ai program.
NextSolCcStream ==
    \/ \E data_stream \in SolCcStreamAccounts, creator \in SolUsers,
          stream_id \in SolCcStreamIds \ {"s2"}, source_chain \in SolCcChains,
          target_chain \in SolCcChains, ipfs_hash \in SolCcIpfsHashes :
          sol_initialize_stream(data_stream, creator, stream_id, source_chain,
                                target_chain, ipfs_hash)
    \/ \E data_stream \in SolCcStreamAccounts, ai_packet \in SolCcPacketAccounts,
          caller \in SolUsers, authorized_bridges \in SolCcKeyLists,
          packet_id \in SolCcPacketIds, stream_id \in SolCcStreamIds,
          data_type \in SolCcDataTypes, confidence \in SolCcConfidences :
          sol_process_ai_packet(data_stream, ai_packet, caller, authorized_bridges,
                                packet_id, stream_id, data_type, confidence)
    \/ \E data_stream \in SolCcStreamAccounts,
          emotional_metadata \in SolCcMetadataAccounts, caller \in SolUsers,
          ai_oracles \in SolCcKeyLists, stream_id \in SolCcStreamIds,
          emotion_type \in SolCcEmotionTypes, intensity \in SolCcIntensities,
          vector_hash \in SolCcVectorHashes :
          sol_store_emotional_metadata(data_stream, emotional_metadata, caller,
                                       ai_oracles, stream_id, emotion_type,
                                       intensity, vector_hash)

SpecSolCcStream == Init /\ [][NextSolCcStream]_vars

\* MultifusionEngine: sessions, assets and fusions.
NextFusion ==
    \/ \E session_id \in EngineCreatedIds : create_session(session_id)
    \/ \E session_id \in EngineSessionIds, asset_id \in EngineAssetIds,
          blockchain \in EngineBlockchains :
          add_cross_chain_asset(session_id,
              [asset_id |-> asset_id, blockchain |-> blockchain, token_id |-> "7"])
    \/ \E session_id \in EngineSessionIds, primary_asset_id \in EngineAssetIds,
          secondary_asset_ids \in EngineSecondaryIds,
          strategy_name \in EngineStrategyNames, engines_ok \in BOOLEAN :
          start_fusion(session_id, primary_asset_id, secondary_asset_ids,
                       strategy_name, engines_ok)

SpecFusion == Init /\ [][NextFusion]_vars

NextClient ==
    \/ \E id \in ClientVectorIds : insert_emotional_vector(id)
    \/ \E asset_type \in ClientAssetTypes, blockchain \in ClientBlockchains,
          metadata \in ClientMetadata, emotional_context \in ClientEmotionalContexts :
          call_generate_blockchain_embedding(asset_type, blockchain, metadata,
                                             emotional_context)
    \/ \E valence \in ClientValences, arousal \in ClientArousals :
          call_categorize_emotion(valence, arousal)

SpecClient == Init /\ [][NextClient]_vars

(***************************************************************************)
(* Claims about the NEAR soulbound NFT contract (SpecSbt).                 *)
(***************************************************************************)
SbtIsTransfer(r) == r.op \in {"nft_transfer", "nft_transfer_call"}
SbtIsMint(r) == r.op \in {"nft_mint", "mint_soulbound"}
SbtOwnersOf(c, token_id) ==
    {a \in DOMAIN c.tokens_per_owner : token_id \in Range(c.tokens_per_owner[a])}

\* C1: nft_transfer and nft_transfer_call abort with "Soulbound tokens are
\* non-transferable" for every caller, receiver and token id (minted or not) and
\* leave the whole contract state unchanged.
C1_TransferAlwaysAborts ==
    [][ SbtIsTransfer(result')
        => /\ result'.err = "Soulbound tokens are non-transferable"
           /\ contract' = contract ]_vars

\* A transfer of a minted token, asked for by its owner, to another account.
C1_Witness ==
    /\ result.op = "nft_transfer"
    /\ ContainsKey(contract.tokens_by_id, result.token_id)
    /\ contract.tokens_by_id[result.token_id].owner_id = result.caller
    /\ result.receiver_id # result.caller
    /\ result.err = "Soulbound tokens are non-transferable"

\* C2: a token stays bound to the receiver of its mint: a successful mint makes
\* nft_token return the token with owner_id = receiver_id, no later call changes
\* the owner nft_token returns, the token is in exactly its owner's
\* tokens_per_owner set, and nft_token is None for an id until a mint of that id
\* succeeds.
C2_BoundToMintOwner ==
    /\ \A t \in SbtTokenIds : nft_token(contract, t) = None
    /\ [][ /\ (SbtIsMint(result') /\ result'.err = "")
              => nft_token(contract', result'.token_id) # None
                 /\ nft_token(contract', result'.token_id)[1].token_id = result'.token_id
                 /\ nft_token(contract', result'.token_id)[1].owner_id = result'.receiver_id
           /\ \A t \in SbtTokenIds :
                /\ nft_token(contract, t) # None
                   => /\ nft_token(contract', t) # None
                      /\ nft_token(contract', t)[1].owner_id = nft_token(contract, t)[1].owner_id
                /\ (nft_token(contract, t) = None /\ nft_token(contract', t) # None)
                   => (SbtIsMint(result') /\ result'.err = "" /\ result'.token_id = t)
                /\ nft_token(contract', t) # None
                   => SbtOwnersOf(contract', t) = {nft_token(contract', t)[1].owner_id}
                /\ nft_token(contract', t) = None => SbtOwnersOf(contract', t) = {}
         ]_vars

\* Both tokens minted to the same account, then a transfer and a repeated mint of
\* the first one were tried.
C2_Witness ==
    /\ \A t \in SbtTokenIds : nft_token(contract, t) # None
    /\ nft_token(contract, "token1")[1].owner_id = "bob.near"
    /\ nft_token(contract, "token2")[1].owner_id = "bob.near"
    /\ SbtIsMint(result) /\ result.token_id = "token1" /\ result.receiver_id = "alice.near"
    /\ result.err = "Token already exists"

\* C3: a mint with quality_score < 0.7 aborts with "Biometric quality too low" and
\* stores nothing; a mint with quality_score >= 0.7 of a token id not yet minted
\* succeeds and stores the token.
C3_QualityThreshold ==
    [][ SbtIsMint(result')
        => /\ result'.quality_score < 70
              => /\ result'.err = "Biometric quality too low"
                 /\ contract' = contract
           /\ (result'.quality_score >= 70
               /\ ~ContainsKey(contract.tokens_by_id, result'.token_id))
              => /\ result'.err = ""
                 /\ ContainsKey(contract'.tokens_by_id, result'.token_id)
                 /\ ContainsKey(contract'.token_metadata_by_id, result'.token_id)
                 /\ ContainsKey(contract'.biometric_data, result'.token_id)
                 /\ Len(get_emotion_history(contract', result'.token_id)) = 1 ]_vars

\* A mint just below the threshold of a token id that is still free.
C3_Witness ==
    /\ SbtIsMint(result)
    /\ result.quality_score = 69
    /\ result.err = "Biometric quality too low"
    /\ ~ContainsKey(contract.tokens_by_id, result.token_id)
    /\ ~ContainsKey(contract.biometric_data, result.token_id)
    /\ ContainsKey(contract.tokens_by_id, "token2")

(***************************************************************************)
(* Claims about SoulboundAIGovernance (SpecGov, SpecGovVote).              *)
(***************************************************************************)
GovRejectedNotOwner == result'.err = "Not token owner" /\ gov' = gov

GovTally(g, proposal_id, vote_type) ==
    CASE vote_type = "For" -> g.proposals[proposal_id].votes_for
      [] vote_type = "Against" -> g.proposals[proposal_id].votes_against
      [] vote_type = "Abstain" -> g.proposals[proposal_id].votes_abstain

\* C4: record_ai_contribution, vote_on_proposal and record_cross_chain_activity
\* called by an account that token_owners does not record for token_id (an id never
\* minted included) abort with "Not token owner" and change nothing in the
\* contract: no soulbound data, no stored vote, no proposal tally.
C4_OwnerOnlyMethods ==
    [][ result'.op \in {"record_ai_contribution", "vote_on_proposal",
                        "record_cross_chain_activity"}
        => \A caller \in Accounts, token_id \in GovTokenIds :
          ~(token_id \in DOMAIN gov.token_owners /\ gov.token_owners[token_id] = caller)
          => /\ record_ai_contribution(caller, token_id, GovContribution)
                => GovRejectedNotOwner
             /\ \A proposal_id \in GovProposalIds, vote_type \in GovVoteTypes,
                   ai_confidence \in GovConfidences :
                   vote_on_proposal(caller, token_id, proposal_id, vote_type, ai_confidence)
                   => GovRejectedNotOwner
             /\ record_cross_chain_activity(caller, token_id, "solana", "mint", "0xabc", 7)
                => GovRejectedNotOwner ]_vars

\* A vote was refused for want of ownership while a token with a contribution and
\* a vote on an open proposal is stored.
C4_Witness ==
    /\ result.op = "vote_on_proposal"
    /\ result.err = "Not token owner"
    /\ DOMAIN gov.token_owners = {"a"}
    /\ Len(gov.soulbound_data["a"].ai_contributions) = 1
    /\ gov.soulbound_data["a"].governance_participation = 1
    /\ "c" \in DOMAIN gov.proposals /\ gov.proposals["c"].votes_for = 1

\* C5: a successful vote_on_proposal adds 1 to the counter of the named proposal
\* that matches vote_type and leaves that proposal's other two counters and every
\* other proposal's counters as they were.
C5_VoteCountsOneBucket ==
    [][ (result'.op = "vote_on_proposal" /\ result'.err = "")
        => \A caller \in Accounts, token_id \in GovTokenIds, proposal_id \in GovProposalIds,
           vote_type \in GovVoteTypes, ai_confidence \in GovConfidences :
           ( vote_on_proposal(caller, token_id, proposal_id, vote_type, ai_confidence)
             /\ result'.err = "" )
           => /\ DOMAIN gov'.proposals = DOMAIN gov.proposals
              /\ \A q \in DOMAIN gov.proposals, w \in GovVoteTypes :
                    GovTally(gov', q, w) =
                        GovTally(gov, q, w)
                        + (IF q = proposal_id /\ w = vote_type THEN 1 ELSE 0) ]_vars

\* Two proposals, each with votes in different buckets, the last call a vote that
\* was accepted.
C5_Witness ==
    /\ result.op = "vote_on_proposal" /\ result.err = ""
    /\ DOMAIN gov.proposals = GovProposalIds
    /\ gov.proposals["c"].votes_against = 1
    /\ gov.proposals["c"].votes_abstain = 1
    /\ gov.proposals["c"].votes_for = 0
    /\ gov.proposals["b_c"].votes_for = 1

\* C9: mint_soulbound_token of an id not yet minted records the caller as owner,
\* makes get_token_metadata return the supplied metadata and adds 1 to
\* total_supply; of a minted id it aborts with "Token already exists" and changes
\* nothing; so get_total_supply is always the number of ids that have an owner.
C9_MintCountsSupply ==
    /\ get_total_supply(gov) = Cardinality(DOMAIN gov.token_owners)
    /\ [][ /\ result'.op = "mint_soulbound_token"
              => \A caller \in Accounts, token_id \in GovTokenIds, metadata \in GovMetadata :
                mint_soulbound_token(caller, token_id, metadata, GovBiometricHash)
                => IF token_id \in DOMAIN gov.token_owners
                   THEN result'.err = "Token already exists" /\ gov' = gov
                   ELSE /\ result'.err = ""
                        /\ token_id \in DOMAIN gov'.token_owners
                        /\ gov'.token_owners[token_id] = caller
                        /\ get_token_metadata(gov', token_id) = Some(metadata)
                        /\ get_total_supply(gov') = get_total_supply(gov) + 1
           /\ get_total_supply(gov') = Cardinality(DOMAIN gov'.token_owners) ]_vars

\* Both ids minted, by different accounts with different metadata, and a further
\* mint of one of them refused.
C9_Witness ==
    /\ result.op = "mint_soulbound_token" /\ result.err = "Token already exists"
    /\ DOMAIN gov.token_owners = GovTokenIds
    /\ gov.token_owners["a"] # gov.token_owners["a_b"]
    /\ gov.token_metadata["a"] # gov.token_metadata["a_b"]
    /\ get_total_supply(gov) = 2

(***************************************************************************)
(* Claims about the Solana biometric_nft program (SpecSol).                *)
(***************************************************************************)
\* C6: an account set up by initialize is soulbound in every reachable state, so
\* transfer_nft on it fails with SoulboundTransferRestricted for every signer and
\* new owner and changes nothing, and its owner stays the user who initialized it
\* whatever instructions follow.
C6_SoulboundForever ==
    [][ /\ \A a \in DOMAIN sol' : sol'[a].soulbound = TRUE
        /\ \A a \in DOMAIN sol : a \in DOMAIN sol' /\ sol'[a].owner = sol[a].owner
        /\ result'.op = "initialize"
           => \A a \in SolAccounts, user \in SolUsers :
                 (initialize(a, user) /\ result'.err = "")
                 => a \notin DOMAIN sol /\ sol'[a].owner = user
        /\ result'.op = "transfer_nft"
           => \A a \in DOMAIN sol, user \in SolUsers, new_owner \in SolUsers :
                 sol_transfer_nft(a, user, new_owner)
                 => result'.err = "SoulboundTransferRestricted" /\ sol' = sol ]_vars

\* A transfer was refused as soulbound while both accounts exist, owned by
\* different users, one of them minted and with updated emotion data.
C6_Witness ==
    /\ result.op = "transfer_nft" /\ result.err = "SoulboundTransferRestricted"
    /\ DOMAIN sol = SolAccounts
    /\ sol["nftA"].owner # sol["nftB"].owner
    /\ sol["nftA"].biometric_hash # ""
    /\ sol["nftA"].last_update_timestamp > 0

\* C7: update_emotion_data signed by a key other than the account's owner fails
\* with Unauthorized, whatever emotion values it carries, and leaves emotion_data
\* and last_update_timestamp (the whole account) unchanged.
C7_OnlyOwnerUpdatesEmotion ==
    [][ result'.op = "update_emotion_data"
        => \A a \in DOMAIN sol, user \in SolUsers, e \in SolEmotions :
              (user # sol[a].owner /\ update_emotion_data(a, user, e))
              => /\ result'.err = "Unauthorized"
                 /\ sol'[a].emotion_data = sol[a].emotion_data
                 /\ sol'[a].last_update_timestamp = sol[a].last_update_timestamp
                 /\ sol' = sol ]_vars

\* An update was refused as unauthorized on accounts whose emotion data had been
\* set by their owners before.
C7_Witness ==
    /\ result.op = "update_emotion_data" /\ result.err = "Unauthorized"
    /\ DOMAIN sol = SolAccounts
    /\ \A a \in SolAccounts : sol[a].emotion_data # SolEmotionDefault
    /\ \A a \in SolAccounts : sol[a].last_update_timestamp = 1
    /\ now = 1

(***************************************************************************)
(* Claims about the Filecoin biometric NFT actor (SpecFvm).                *)
(***************************************************************************)
FvmNfts == load_state(fvm).nfts

\* C8: every stored NFT is soulbound; transfer_nft never changes the stored state
\* and aborts with USR_FORBIDDEN for a token id below the number of stored NFTs
\* and with USR_NOT_FOUND for any other; no call changes the owner recorded for a
\* stored token.
C8_FvmSoulbound ==
    [][ /\ \A i \in 1..Len(load_state(fvm').nfts) : load_state(fvm').nfts[i].soulbound
        /\ \A token_id \in 0..(MaxNfts + 1) :
              FvmTransferExit(load_state(fvm'), token_id) =
                  IF token_id < Len(load_state(fvm').nfts)
                  THEN "USR_FORBIDDEN" ELSE "USR_NOT_FOUND"
        /\ result'.op = "transfer_nft"
           => /\ fvm' = fvm
              /\ result'.exit = IF result'.params < Len(FvmNfts)
                                THEN "USR_FORBIDDEN" ELSE "USR_NOT_FOUND"
        /\ \A i \in 1..Len(FvmNfts) :
              /\ i <= Len(load_state(fvm').nfts)
              /\ load_state(fvm').nfts[i].owner = FvmNfts[i].owner ]_vars

\* A transfer of a stored token was refused, with tokens of two owners stored.
C8_Witness ==
    /\ result.op = "transfer_nft" /\ result.exit = "USR_FORBIDDEN"
    /\ result.params < Len(FvmNfts)
    /\ FvmNfts[result.params + 1].owner = 1001
    /\ FvmNfts[1].owner = 1002

(***************************************************************************)
(* Claims about SimpleNftContract (SpecSimple).                            *)
(***************************************************************************)
\* C10: total_supply is 0 after new; a successful mint_nft makes the caller the
\* owner of the token, makes get_metadata return the supplied metadata for it and
\* increases total_supply by exactly 1.
C10_MintNft ==
    /\ total_supply(simple) = 0
    /\ \A owner_id \in Accounts : total_supply(SimpleNew(owner_id)) = 0
    /\ [][ (result'.op = "mint_nft" /\ result'.err = "")
           => \A caller \in Accounts, token_id \in SimpleTokenIds,
                 metadata \in SimpleMetadata, deposit_ok \in BOOLEAN :
                 (mint_nft(caller, token_id, metadata, deposit_ok) /\ result'.err = "")
                 => /\ get_nft(simple', token_id) # None
                    /\ get_nft(simple', token_id)[1].owner_id = caller
                    /\ get_metadata(simple', token_id) = Some(metadata)
                    /\ total_supply(simple') = total_supply(simple) + 1 ]_vars

\* bob minted the second token of the contract, which alice owns.
C10_Witness ==
    /\ result.op = "mint_nft" /\ result.err = ""
    /\ total_supply(simple) = 2
    /\ get_nft(simple, "token2") # None
    /\ get_nft(simple, "token2")[1].owner_id = "bob.near"
    /\ get_nft(simple, "token1") # None
    /\ get_nft(simple, "token1")[1].owner_id = "alice.near"

\* C11: get_interaction_history(token_id) holds one entry per record_interaction
\* call made for that token, in call order: a record_interaction appends exactly
\* one entry carrying its interaction text and leaves the other tokens' histories
\* alone, and no other operation removes or changes an entry.
C11_HistoryKeepsEveryInteraction ==
    [][ /\ result'.op = "record_interaction"
           => \A caller \in SimpleRecorders, token_id \in SimpleTokenIds,
                 interaction \in SimpleInteractions :
                 record_interaction(caller, token_id, interaction)
                 => /\ get_interaction_history(simple', token_id) =
                          Append(get_interaction_history(simple, token_id),
                                 InteractionWithTimestamp(now, caller, interaction))
                    /\ \A other \in SimpleTokenIds \ {token_id} :
                          get_interaction_history(simple', other) =
                              get_interaction_history(simple, other)
        /\ result'.op # "record_interaction"
           => \A token_id \in SimpleTokenIds :
                 get_interaction_history(simple', token_id) =
                     get_interaction_history(simple, token_id) ]_vars

(***************************************************************************)
(* Claims about the NEAR CrossChainAIML contract (SpecCcPacket,            *)
(* SpecCcStream).                                                          *)
(***************************************************************************)
\* C12: a successful process_ai_data stores under packet_id a packet holding
\* exactly the supplied stream_id, data_type, ai_data, signature, confidence,
\* model_version and inference_result, which get_ai_data_packet returns; it
\* replaces an earlier packet of that id, leaves every other packet alone and
\* changes no stream, no authorization and no chain mapping.
C12_PacketIsWhatCallerSent ==
    [][ (result'.op = "process_ai_data" /\ result'.err = "")
        => \A caller \in Accounts, packet_id \in CcPacketIds, stream_id \in CcStreamIds,
              data_type \in CcDataTypes, confidence \in CcConfidences,
              model_version \in CcModelVersions, inference_result \in CcInferenceResults :
              ( /\ process_ai_data(caller, packet_id, stream_id, data_type, CcAiData,
                                   CcSignature, confidence, model_version, inference_result)
                /\ result'.err = "" )
              => /\ get_ai_data_packet(ccai', packet_id) # None
                 /\ LET packet == get_ai_data_packet(ccai', packet_id)[1] IN
                    /\ packet.packet_id = packet_id
                    /\ packet.stream_id = stream_id
                    /\ packet.data_type = data_type
                    /\ packet.ai_data = CcAiData
                    /\ packet.signature = CcSignature
                    /\ packet.confidence = confidence
                    /\ packet.model_version = model_version
                    /\ packet.inference_result = inference_result
                 /\ \A other \in CcPacketIds \ {packet_id} :
                       get_ai_data_packet(ccai', other) = get_ai_data_packet(ccai, other)
                 /\ ccai'.data_streams = ccai.data_streams
                 /\ ccai'.stream_metadata = ccai.stream_metadata
                 /\ ccai'.active_stream_ids = ccai.active_stream_ids
                 /\ ccai'.stream_counter = ccai.stream_counter
                 /\ ccai'.authorized_bridges = ccai.authorized_bridges
                 /\ ccai'.ai_oracles = ccai.ai_oracles
                 /\ ccai'.chain_ids = ccai.chain_ids ]_vars

\* A packet of type "training" with an empty model name in its inference result
\* is stored for stream1.
C12_Witness ==
    /\ result.op = "process_ai_data" /\ result.err = ""
    /\ get_ai_data_packet(ccai, "packet1") # None
    /\ get_ai_data_packet(ccai, "packet1")[1].data_type = "training"
    /\ get_ai_data_packet(ccai, "packet1")[1].inference_result.model_name = ""
    /\ get_ai_data_packet(ccai, "packet1")[1].confidence = 1

\* C13: coordinate_federated_learning and submit_gradient_update never change the
\* contract's state; submit_gradient_update returns true for every caller and
\* every round_id, coordinated or not; the FederatedLearningCoord returned by
\* coordinate_federated_learning has an empty gradient_updates list.
C13_FederatedCallsPersistNothing ==
    [][ /\ result'.op = "coordinate_federated_learning"
           => /\ ccai' = ccai
              /\ result'.err = ""
                 => /\ result'.ret # None
                    /\ result'.ret[1].gradient_updates = << >>
        /\ result'.op = "submit_gradient_update"
           => \A caller \in Accounts, round_id \in CcRoundIds :
                 submit_gradient_update(caller, round_id, CcAiData, 25, 1)
                 => /\ ccai' = ccai
                    /\ result'.err = ""
                    /\ result'.ret = Some(TRUE) ]_vars

\* A gradient update was accepted although no oracle exists, so no round was ever
\* coordinated; the contract holds a stream and a packet.
C13_Witness ==
    /\ result.op = "submit_gradient_update" /\ result.ret = Some(TRUE)
    /\ ccai.ai_oracles = EmptyMap
    /\ "stream1" \in DOMAIN ccai.data_streams
    /\ "packet1" \in DOMAIN ccai.ai_data_packets

\* C15: create_data_stream aborts, leaving data_streams, active_stream_ids and
\* stream_counter unchanged, whenever stream_id, source_chain, target_chain or
\* ipfs_hash is empty, a chain name is not registered in chain_ids, or the two
\* chains are equal; so every stored stream names two different registered chains.
C15_StreamArgumentsValidated ==
    [][ /\ (result'.op = "create_data_stream" /\ result'.err # "")
           => \A stream_id \in {"", "stream1"}, source_chain \in CcChains,
                 target_chain \in CcChains, ipfs_hash \in CcIpfsHashes :
                 ( /\ \/ stream_id = "" \/ source_chain = "" \/ target_chain = ""
                      \/ ipfs_hash = ""
                      \/ source_chain \notin DOMAIN ccai.chain_ids
                      \/ target_chain \notin DOMAIN ccai.chain_ids
                      \/ source_chain = target_chain
                   /\ result'.err = CreateDataStreamErr(ccai, stream_id, source_chain,
                                                        target_chain, ipfs_hash) )
                 => \A caller \in Accounts :
                       create_data_stream(caller, stream_id, source_chain, target_chain,
                                          ipfs_hash, CcEncryptedData, CcEpoch)
                       => /\ result'.ret = None
                          /\ ccai'.data_streams = ccai.data_streams
                          /\ ccai'.active_stream_ids = ccai.active_stream_ids
                          /\ ccai'.stream_counter = ccai.stream_counter
        /\ (result'.op = "create_data_stream" /\ result'.err = "")
           => \A caller \in Accounts, source_chain \in CcChains, target_chain \in CcChains,
                 ipfs_hash \in CcIpfsHashes :
                 create_data_stream(caller, "stream1", source_chain, target_chain,
                                    ipfs_hash, CcEncryptedData, CcEpoch)
                 => /\ source_chain # "" /\ target_chain # "" /\ ipfs_hash # ""
                    /\ source_chain \in DOMAIN ccai.chain_ids
                    /\ target_chain \in DOMAIN ccai.chain_ids
                    /\ source_chain # target_chain
        /\ \A stream_id \in DOMAIN ccai'.data_streams :
              /\ ccai'.data_streams[stream_id].source_chain
                    # ccai'.data_streams[stream_id].target_chain
              /\ ccai'.data_streams[stream_id].source_chain \in DOMAIN ccai'.chain_ids
              /\ ccai'.data_streams[stream_id].target_chain \in DOMAIN ccai'.chain_ids ]_vars

\* A stream from the later-registered chain "bitcoin" is stored, and a call naming
\* the same chain twice was just rejected.
C15_Witness ==
    /\ result.op = "create_data_stream"
    /\ result.err = "Source and target must differ"
    /\ "stream1" \in DOMAIN ccai.data_streams
    /\ ccai.data_streams["stream1"].source_chain = "bitcoin"
    /\ ccai.stream_counter = 1

\* C19: once create_data_stream has stored a stream under a stream_id, no later
\* call by a different account changes that stream's creator or contents; a second
\* create_data_stream with the same stream_id does not replace the stored stream.
C19_StreamCreatorNeverChanges ==
    [][ /\ \A stream_id \in DOMAIN ccai.data_streams :
              /\ stream_id \in DOMAIN ccai'.data_streams
              /\ ccai'.data_streams[stream_id].creator = ccai.data_streams[stream_id].creator
        /\ result'.op = "create_data_stream"
           => \A caller \in Accounts, stream_id \in DOMAIN ccai.data_streams,
                 source_chain \in CcChains, target_chain \in CcChains,
                 ipfs_hash \in CcIpfsHashes :
                 ( /\ caller # ccai.data_streams[stream_id].creator
                   /\ create_data_stream(caller, stream_id, source_chain, target_chain,
                                         ipfs_hash, CcEncryptedData, CcEpoch) )
                 => ccai'.data_streams[stream_id] = ccai.data_streams[stream_id] ]_vars

\* C20: process_ai_data stores a packet only if packet_id, stream_id, data_type
\* and model_version are non-empty, confidence is in 1..100, the stream exists and
\* is active, and the caller is the stream's creator or an authorized bridge; in
\* every other case it aborts and ai_data_packets is unchanged.  An AI oracle that
\* is neither creator nor bridge is rejected.
C20_PacketOnlyFromCreatorOrBridge ==
    [][ /\ (result'.op = "process_ai_data" /\ result'.err = "")
           => \A packet_id \in CcPacketIds, stream_id \in CcStreamIds,
                 data_type \in CcDataTypes, confidence \in CcConfidences,
                 model_version \in CcModelVersions, caller \in Accounts,
                 inference_result \in CcInferenceResults :
                 process_ai_data(caller, packet_id, stream_id, data_type, CcAiData,
                                 CcSignature, confidence, model_version, inference_result)
                 => /\ packet_id # "" /\ stream_id # "" /\ data_type # ""
                    /\ model_version # ""
                    /\ confidence \in 1..100
                    /\ stream_id \in DOMAIN ccai.data_streams
                    /\ ccai.data_streams[stream_id].active
                    /\ \/ caller = ccai.data_streams[stream_id].creator
                       \/ is_authorized_bridge(ccai, caller)
        /\ (result'.op = "process_ai_data" /\ result'.err # "")
           => /\ result'.ret = None
              /\ ccai'.ai_data_packets = ccai.ai_data_packets ]_vars

\* alice, an AI oracle but neither the creator of stream1 nor a bridge, was just
\* rejected; the packet bob stored earlier is still there.
C20_Witness ==
    /\ result.op = "process_ai_data" /\ result.err = "Unauthorized caller"
    /\ is_ai_oracle(ccai, "alice.near")
    /\ ~is_authorized_bridge(ccai, "alice.near")
    /\ "stream1" \in DOMAIN ccai.data_streams
    /\ ccai.data_streams["stream1"].creator = "bob.near"
    /\ "packet1" \in DOMAIN ccai.ai_data_packets

(***************************************************************************)
(* Claims about the Solana cross_chain_ai program (SpecSolCc).             *)
(***************************************************************************)
\* C14: submit_gradient_update appends exactly one GradientUpdate, whose participant
\* is the signer, to the supplied federated_coord account for any signer and any
\* round_id: neither the account's round_id nor its participants list is checked,
\* and earlier updates are neither removed nor reordered.
C14_GradientAcceptedFromAnyone ==
    [][ result'.op = "submit_gradient_update"
        => \A federated_coord \in DOMAIN solcc.federated_coords, participant \in SolUsers,
              round_id \in SolCcRoundIds :
              sol_submit_gradient_update(federated_coord, participant, round_id,
                                         SolCcGradientData, 25, 1)
              => LET before == solcc.federated_coords[federated_coord].gradient_updates
                     after == solcc'.federated_coords[federated_coord].gradient_updates
                 IN  /\ result'.err = ""
                     /\ Len(after) = Len(before) + 1
                     /\ SubSeq(after, 1, Len(before)) = before
                     /\ after[Len(after)].participant = participant
                     /\ \A other \in DOMAIN solcc.federated_coords \ {federated_coord} :
                           solcc'.federated_coords[other] = solcc.federated_coords[other]
                     /\ solcc'.federated_coords[federated_coord].round_id =
                           solcc.federated_coords[federated_coord].round_id
                     /\ solcc'.federated_coords[federated_coord].participants =
                           solcc.federated_coords[federated_coord].participants ]_vars

\* The account of round 1, whose only participant is userX, holds two updates
\* signed by userY.
C14_Witness ==
    /\ result.op = "submit_gradient_update" /\ result.err = ""
    /\ "coordA" \in DOMAIN solcc.federated_coords
    /\ solcc.federated_coords["coordA"].round_id = 1
    /\ solcc.federated_coords["coordA"].participants = <<"userX">>
    /\ Len(solcc.federated_coords["coordA"].gradient_updates) = 2
    /\ \A i \in 1..2 :
          solcc.federated_coords["coordA"].gradient_updates[i].participant = "userY"

(***************************************************************************)
(* Claims about the Filecoin actor's dispatch (SpecFvm).                   *)
(***************************************************************************)
\* C16: invoke dispatches method 1 to mint_biometric_nft, 2 to get_nft_metadata,
\* 3 to verify_biometric_data and 4 to transfer_nft; every other method number
\* aborts with USR_UNHANDLED_MESSAGE, whatever the stored state, and leaves it
\* unchanged; only method 1 ever changes the stored state.
C16_InvokeDispatch ==
    [][ \A params \in FvmMethods, caller \in FvmCallers, put_ok \in BOOLEAN :
           invoke(params, caller, put_ok)
           => /\ result'.params = params
              /\ params = 1 => result'.op = "mint_biometric_nft"
              /\ params = 2 => result'.op = "get_nft_metadata"
              /\ params = 3 => result'.op = "verify_biometric_data"
              /\ params = 4 => result'.op = "transfer_nft"
              /\ params \notin 1..4
                 => /\ result'.op = "invoke"
                    /\ result'.exit = "USR_UNHANDLED_MESSAGE"
              /\ params # 1 => fvm' = fvm
              /\ (params = 1 /\ result'.exit = "OK")
                 => Len(load_state(fvm').nfts) = Len(load_state(fvm).nfts) + 1 ]_vars

\* Method 5 was refused while the actor holds an NFT.
C16_Witness ==
    /\ result.op = "invoke" /\ result.params = 5
    /\ result.exit = "USR_UNHANDLED_MESSAGE"
    /\ Len(FvmNfts) >= 1

\* C17: generate_blockchain_embedding returns exactly 512 elements that depend
\* only on asset_type, blockchain, the metadata entries 'name' and
\* 'description' and the emotional context: a call with any other metadata that
\* has the same two entries returns the identical vector, whatever the engine
\* holds, and the call leaves the engine's store as it was.
C17_EmbeddingDependsOnlyOnArguments ==
    [][(/\ client'.call # None
        /\ client'.call[1].fn = "generate_blockchain_embedding"
        /\ \/ client.call = None
           \/ client.call[1].fn # "generate_blockchain_embedding"
           \/ client.call[1].args # client'.call[1].args) =>
        LET args == client'.call[1].args
            ret == client'.call[1].ret
        IN  /\ call_generate_blockchain_embedding(args[1], args[2], args[3], args[4])
            /\ Len(ret) = 512
            /\ client'.emotional_vectors = client.emotional_vectors
            /\ \A other \in ClientMetadata :
                  (/\ Get(other, "name") = Get(args[3], "name")
                   /\ Get(other, "description") = Get(args[3], "description"))
                  => generate_blockchain_embedding(args[1], args[2], other, args[4]) = ret
    ]_vars

\* An embedding returned for metadata with a numeric name and a symbol, with an
\* emotional context, by an engine that holds a vector.
C17_Witness ==
    /\ client.call # None
    /\ client.call[1].fn = "generate_blockchain_embedding"
    /\ "symbol" \in DOMAIN client.call[1].args[3]
    /\ "name" \in DOMAIN client.call[1].args[3]
    /\ client.call[1].args[3]["name"].kind = "number"
    /\ client.call[1].args[4] # None
    /\ Len(client.call[1].ret) = 512
    /\ client.emotional_vectors # << >>

\* C18: categorize_emotion returns 'excited' for positive valence with arousal
\* above 0.5 and 'anxious' for negative valence with arousal above 0.5, and the
\* inputs (0.8, 0.9), (0.7, 0.3), (-0.6, 0.8) and (0.1, 0.2) are classified as
\* 'excited', 'happy', 'anxious' and 'calm'.
C18_EmotionCategories ==
    (client.call # None /\ client.call[1].fn = "categorize_emotion") =>
        LET valence == client.call[1].args[1]
            arousal == client.call[1].args[2]
            ret == client.call[1].ret
        IN  /\ (valence > 0 /\ arousal > 50) => ret = "excited"
            /\ (valence < 0 /\ arousal > 50) => ret = "anxious"
            /\ (valence = 80 /\ arousal = 90) => ret = "excited"
            /\ (valence = 70 /\ arousal = 30) => ret = "happy"
            /\ (valence = -60 /\ arousal = 80) => ret = "anxious"
            /\ (valence = 10 /\ arousal = 20) => ret = "calm"

\* C21: after new no account is an authorized bridge or an AI oracle; an account
\* becomes one only by authorize_bridge / authorize_ai_oracle called by the
\* contract's own account, a call by anyone else aborts and changes nothing, and
\* an account that is one stays one; chain_ids changes only by
\* update_chain_mapping called by the contract's own account and loses no name.
C21_AuthorizationsOnlyByContractAndKept ==
    /\ \A a \in CcCallers : ~is_authorized_bridge(ccai, a) /\ ~is_ai_oracle(ccai, a)
    /\ [][/\ \A a \in CcCallers :
               /\ is_authorized_bridge(ccai, a) => is_authorized_bridge(ccai', a)
               /\ is_ai_oracle(ccai, a) => is_ai_oracle(ccai', a)
               /\ (~is_authorized_bridge(ccai, a) /\ is_authorized_bridge(ccai', a))
                  => authorize_bridge(CcContractAccount, a)
               /\ (~is_ai_oracle(ccai, a) /\ is_ai_oracle(ccai', a))
                  => authorize_ai_oracle(CcContractAccount, a)
          /\ (result'.op \in {"authorize_bridge", "authorize_ai_oracle", "update_chain_mapping"}
              /\ result'.err = "")
             => \E account \in Accounts, chain_name \in {"bitcoin", "near"}, chain_id \in {"0", "397"} :
                   \/ authorize_bridge(CcContractAccount, account)
                   \/ authorize_ai_oracle(CcContractAccount, account)
                   \/ update_chain_mapping(CcContractAccount, chain_name, chain_id)
          /\ (result'.op \in {"authorize_bridge", "authorize_ai_oracle", "update_chain_mapping"}
              /\ result'.err = "")
             => \A caller \in CcCallers, account \in Accounts, chain_name \in {"bitcoin", "near"}, chain_id \in {"0", "397"} :
                   (\/ authorize_bridge(caller, account)
                    \/ authorize_ai_oracle(caller, account)
                    \/ update_chain_mapping(caller, chain_name, chain_id))
                   => caller = CcContractAccount
          /\ (result'.op \in {"authorize_bridge", "authorize_ai_oracle", "update_chain_mapping"}
              /\ result'.err # "")
             => ccai' = ccai
          /\ ccai'.chain_ids # ccai.chain_ids
             => \E chain_name \in {"bitcoin", "near"}, chain_id \in {"0", "397"} :
                   update_chain_mapping(CcContractAccount, chain_name, chain_id)
          /\ DOMAIN ccai.chain_ids \subseteq DOMAIN ccai'.chain_ids
       ]_vars

\* A bridge and an oracle are authorized and a chain is mapped, and a call by
\* another account has just been rejected.
C21_Witness ==
    /\ is_authorized_bridge(ccai, "bob.near")
    /\ is_ai_oracle(ccai, "alice.near")
    /\ "bitcoin" \in DOMAIN ccai.chain_ids
    /\ result.op = "authorize_bridge"
    /\ result.err = "Only contract can authorize bridges"
    /\ ~is_authorized_bridge(ccai, "alice.near")

\* C22: for every from_index and limit, get_stream_ids does not fail and returns
\* the ids at positions from_index .. min(from_index + limit, total) - 1 of
\* active_stream_ids in creation order, the sum taken without wrapping: the
\* empty list when from_index >= total or limit = 0, and at most limit ids.
C22_StreamIdsPage ==
    [][result'.op = "get_stream_ids" =>
        \A from_index \in CcIndexes, limit \in CcIndexes, overflow_checks \in BOOLEAN :
            get_stream_ids(from_index, limit, overflow_checks) =>
                LET ids == ccai.active_stream_ids
                    total == Len(ids)
                    count == IF from_index < 0 \/ from_index >= total \/ limit = 0 THEN 0
                             ELSE IF limit < 0 \/ from_index + limit >= total
                             THEN total - from_index
                             ELSE limit
                IN  /\ result'.err = ""
                    /\ result'.ret = [i \in 1..count |-> ids[from_index + i]]
    ]_vars

\* The vote of token_id on proposal_id has been accepted: its record is stored.
GovVoted(g, token_id, proposal_id) ==
    \E k \in DOMAIN g.ai_governance_votes :
        /\ g.ai_governance_votes[k].voter_token_id = token_id
        /\ g.ai_governance_votes[k].proposal_id = proposal_id

\* C23 as stated: after a token's vote on a proposal has been accepted, every
\* later vote_on_proposal with the same token and proposal aborts with
\* 'Already voted' and changes nothing of the contract.
C23_SecondVoteSaysAlreadyVoted ==
    [][result'.op = "vote_on_proposal" =>
        \A token_id \in GovTokenIds, proposal_id \in GovProposalIds :
            GovVoted(gov, token_id, proposal_id) =>
                \A caller \in Accounts, vote_type \in GovVoteTypes, ai_confidence \in GovConfidences :
                    vote_on_proposal(caller, token_id, proposal_id, vote_type, ai_confidence)
                    => (result'.err = "Already voted" /\ gov' = gov)
    ]_vars

\* C23: each token votes at most once per proposal: after a token's vote on a
\* proposal has been accepted, every later vote_on_proposal with the same token
\* and proposal aborts and changes neither the tallies, the stored vote nor the
\* token's governance_participation; the abort is 'Already voted' when the
\* caller owns the token and the voting period is open, and the message of the
\* earlier check ('Not token owner', 'Voting period ended') otherwise.
C23_TokenVotesOncePerProposal ==
    [][result'.op = "vote_on_proposal" =>
        \A token_id \in GovTokenIds, proposal_id \in GovProposalIds :
            GovVoted(gov, token_id, proposal_id) =>
                \A caller \in Accounts, vote_type \in GovVoteTypes, ai_confidence \in GovConfidences :
                    vote_on_proposal(caller, token_id, proposal_id, vote_type, ai_confidence)
                    => /\ result'.err # ""
                       /\ gov'.proposals = gov.proposals
                       /\ gov'.ai_governance_votes = gov.ai_governance_votes
                       /\ gov'.soulbound_data = gov.soulbound_data
                       /\ result'.err = (IF ~IsTokenOwner(gov, token_id, caller)
                                         THEN "Not token owner"
                                         ELSE IF ~VotingOpen(gov.proposals[proposal_id], now)
                                         THEN "Voting period ended"
                                         ELSE "Already voted")
    ]_vars

\* A second vote of a token on a proposal has just been refused as already cast.
C23_Witness ==
    /\ result.op = "vote_on_proposal"
    /\ result.err = "Already voted"
    /\ \E token_id \in GovTokenIds, proposal_id \in GovProposalIds :
          /\ GovVoted(gov, token_id, proposal_id)
          /\ gov.soulbound_data[token_id].governance_participation = 1

\* C24: a vote is rejected as 'Already voted' only if that same token has
\* already voted on that same proposal: a vote accepted for one (token,
\* proposal) pair never makes a vote of a different pair be refused as cast.
C24_AlreadyVotedOnlyForSamePair ==
    [][(result'.op = "vote_on_proposal" /\ result'.err = "Already voted") =>
        \A caller \in Accounts, token_id \in GovTokenIds, proposal_id \in GovProposalIds,
           vote_type \in GovVoteTypes, ai_confidence \in GovConfidences :
            vote_on_proposal(caller, token_id, proposal_id, vote_type, ai_confidence)
            => GovVoted(gov, token_id, proposal_id)
    ]_vars

\* The number of stored vote records whose field f names id.
GovVoteRecords(g, f, id) ==
    Cardinality({k \in DOMAIN g.ai_governance_votes : g.ai_governance_votes[k][f] = id})

\* C25: for every proposal votes_for + votes_against + votes_abstain is the
\* number of vote records stored for it, for every token
\* governance_participation is the number of vote records stored for it, and a
\* proposal is created with its three tallies at 0.
C25_TalliesMatchVoteRecords ==
    /\ [](/\ \A p \in DOMAIN gov.proposals :
                gov.proposals[p].votes_for + gov.proposals[p].votes_against
                + gov.proposals[p].votes_abstain = GovVoteRecords(gov, "proposal_id", p)
          /\ \A t \in DOMAIN gov.soulbound_data :
                gov.soulbound_data[t].governance_participation
                = GovVoteRecords(gov, "voter_token_id", t))
    /\ [][\A p \in DOMAIN gov'.proposals \ DOMAIN gov.proposals :
             /\ gov'.proposals[p].votes_for = 0
             /\ gov'.proposals[p].votes_against = 0
             /\ gov'.proposals[p].votes_abstain = 0]_vars

\* A proposal with two votes of different kinds, cast by two tokens.
C25_Witness ==
    \E p \in DOMAIN gov.proposals :
        /\ gov.proposals[p].votes_for = 1
        /\ gov.proposals[p].votes_abstain = 1
        /\ GovVoteRecords(gov, "proposal_id", p) = 2
        /\ \A t \in GovTokenIds : t \in DOMAIN gov.soulbound_data
                                  /\ gov.soulbound_data[t].governance_participation >= 1

\* The voting of proposal p has ended at time t: t has reached created_at + voting_period.
GovVotingEnded(g, p, t) == t >= g.proposals[p].created_at + g.proposals[p].voting_period

GovTallies(proposal) == <<proposal.votes_for, proposal.votes_against, proposal.votes_abstain>>

\* C26 as stated: a vote is accepted only while the timestamp is below
\* created_at + voting_period; once it has reached that value every vote on the
\* proposal aborts with 'Voting period ended' and the tallies never change
\* again; a proposal with voting_period = 0 never receives a vote.
C26_VotingWindowSaysEnded ==
    [][result'.op = "vote_on_proposal" =>
        \A token_id \in GovTokenIds, proposal_id \in DOMAIN gov.proposals,
           caller \in Accounts, vote_type \in GovVoteTypes, ai_confidence \in GovConfidences :
            vote_on_proposal(caller, token_id, proposal_id, vote_type, ai_confidence)
            => /\ result'.err = "" => ~GovVotingEnded(gov, proposal_id, now)
               /\ GovVotingEnded(gov, proposal_id, now)
                  => (result'.err = "Voting period ended" /\ gov' = gov)
    ]_vars

\* C26: a vote is accepted only while the timestamp is below created_at +
\* voting_period; once it has reached that value every vote on the proposal
\* aborts, with 'Voting period ended' when the caller owns the token and with
\* 'Not token owner' otherwise, and the tallies never change again; a proposal
\* with voting_period = 0 never receives a vote.
C26_VotingWindow ==
    /\ [][result'.op = "vote_on_proposal" =>
            \A token_id \in GovTokenIds, proposal_id \in DOMAIN gov.proposals,
               caller \in Accounts, vote_type \in GovVoteTypes, ai_confidence \in GovConfidences :
                vote_on_proposal(caller, token_id, proposal_id, vote_type, ai_confidence)
                => /\ result'.err = "" => now < gov.proposals[proposal_id].created_at
                                                + gov.proposals[proposal_id].voting_period
                   /\ GovVotingEnded(gov, proposal_id, now)
                      => /\ gov' = gov
                         /\ result'.err = (IF IsTokenOwner(gov, token_id, caller)
                                           THEN "Voting period ended" ELSE "Not token owner")
         ]_vars
    /\ [][\A p \in DOMAIN gov.proposals :
             GovVotingEnded(gov, p, now)
             => /\ now' >= now
                /\ p \in DOMAIN gov'.proposals
                /\ GovVotingEnded(gov', p, now')
                /\ GovTallies(gov'.proposals[p]) = GovTallies(gov.proposals[p])
         ]_vars
    /\ [](\A p \in DOMAIN gov.proposals :
             gov.proposals[p].voting_period = 0
             => /\ GovTallies(gov.proposals[p]) = <<0, 0, 0>>
                /\ \A k \in DOMAIN gov.ai_governance_votes :
                      gov.ai_governance_votes[k].proposal_id # p)

\* The owner's vote on a proposal that holds a vote has just been refused
\* because its period ended, while a proposal with period 0 stands without votes.
C26_Witness ==
    /\ result.op = "vote_on_proposal"
    /\ result.err = "Voting period ended"
    /\ \E p \in DOMAIN gov.proposals :
          /\ gov.proposals[p].voting_period = 1
          /\ GovVotingEnded(gov, p, now)
          /\ gov.proposals[p].votes_for = 1
    /\ \E p \in DOMAIN gov.proposals : gov.proposals[p].voting_period = 0

\* C27: every stored proposal has status Active, executed_at = None and is a
\* member of active_proposals, no step removes a proposal, and
\* create_governance_proposal with an existing proposal_id aborts with
\* 'Proposal already exists' and leaves that proposal as it was.
C27_ProposalsStayActive ==
    /\ [](\A p \in DOMAIN gov.proposals :
             /\ gov.proposals[p].status = "Active"
             /\ gov.proposals[p].executed_at = None
             /\ p \in Range(gov.active_proposals))
    /\ [][/\ DOMAIN gov.proposals \subseteq DOMAIN gov'.proposals
          /\ Range(gov.active_proposals) \subseteq Range(gov'.active_proposals)
          /\ result'.op = "create_governance_proposal" =>
                \A caller \in Accounts, proposal_id \in DOMAIN gov.proposals,
                   voting_period \in GovVotingPeriods :
                    create_governance_proposal(caller, proposal_id, voting_period)
                    => /\ result'.err = "Proposal already exists"
                       /\ gov' = gov
         ]_vars

\* The creation of a proposal that has a vote has just been refused.
C27_Witness ==
    /\ result.op = "create_governance_proposal"
    /\ result.err = "Proposal already exists"
    /\ \E p \in DOMAIN gov.proposals :
          gov.proposals[p].votes_for = 1 /\ p \in Range(gov.active_proposals)

\* C28: token_owners, token_metadata and soulbound_data have the same keys; a
\* token id is in get_owner_tokens(a) exactly when token_owners maps it to a,
\* once in it, so every token belongs to exactly one account; and the owner of
\* a token never changes after mint.
C28_OwnershipIndexesConsistent ==
    /\ [](/\ DOMAIN gov.token_owners = DOMAIN gov.token_metadata
          /\ DOMAIN gov.token_owners = DOMAIN gov.soulbound_data
          /\ \A a \in Accounts, t \in GovTokenIds :
                (t \in Range(get_owner_tokens(gov, a))) <=> (Get(gov.token_owners, t) = Some(a))
          /\ \A a \in Accounts :
                Cardinality(Range(get_owner_tokens(gov, a))) = Len(get_owner_tokens(gov, a))
          /\ \A a \in DOMAIN gov.account_tokens : a \in Accounts
          /\ \A t \in DOMAIN gov.token_owners : t \in GovTokenIds)
    /\ [][\A t \in DOMAIN gov.token_owners :
             t \in DOMAIN gov'.token_owners /\ gov'.token_owners[t] = gov.token_owners[t]
         ]_vars

\* Two tokens of two owners, and a mint of an existing token by the other
\* account has just been refused.
C28_Witness ==
    /\ Get(gov.token_owners, "a") = Some("alice.near")
    /\ Get(gov.token_owners, "a_b") = Some("bob.near")
    /\ get_owner_tokens(gov, "alice.near") = <<"a">>
    /\ result.op = "mint_soulbound_token"
    /\ result.err = "Token already exists"

\* The identity data of an NFT account.
SolIdentity(account) ==
    <<account.biometric_hash, account.quality_score, account.cross_chain_id,
      account.token_id, account.mint_timestamp>>

\* C29: the identity data of an initialized NFT account (biometric_hash,
\* quality_score, cross_chain_id, token_id, mint_timestamp) is set or changed
\* only by a transaction signed by the account's owner, and once set by a
\* successful mint_biometric_nft it is not overwritten by a later one.
C29_IdentitySetOnceByOwner ==
    [][/\ \A a \in DOMAIN sol :
             SolIdentity(sol'[a]) # SolIdentity(sol[a])
             => (result'.op = "mint_biometric_nft" /\ result'.err = "")
       /\ (result'.op = "mint_biometric_nft" /\ result'.err = "") =>
             \A nft_account \in SolAccounts, user \in SolUsers, emotion_data \in SolEmotions,
                quality_score \in SolQualities, biometric_hash \in SolHashes,
                cross_chain_id \in SolCrossChainIds :
                 mint_biometric_nft(nft_account, user, emotion_data, quality_score,
                                    biometric_hash, cross_chain_id)
                 => /\ user = sol[nft_account].owner
                    /\ sol[nft_account].biometric_hash = ""
    ]_vars

\* A component in hundredths lies within [0, 1].
SolInUnit(x) == 0 <= x /\ x <= 100

SolAllInUnit(e) ==
    /\ SolInUnit(e.happiness) /\ SolInUnit(e.sadness) /\ SolInUnit(e.anger)
    /\ SolInUnit(e.fear) /\ SolInUnit(e.surprise) /\ SolInUnit(e.neutral)

\* C30: mint_biometric_nft succeeds only if quality_score >= 0.7, biometric_hash
\* has length 64 and the six emotion components are within [0, 1], and fails
\* with LowQualityScore, InvalidBiometricHash or InvalidEmotionData, in this
\* order, with the account unchanged; update_emotion_data enforces the same
\* ranges; so in every state the stored emotion components lie in [0, 1] and a
\* non-empty stored biometric_hash has length 64 with quality_score >= 0.7.
C30_StoredBiometricsValid ==
    /\ [](\A a \in DOMAIN sol :
             /\ SolAllInUnit(sol[a].emotion_data)
             /\ sol[a].biometric_hash # ""
                => (Len(sol[a].biometric_hash) = 64 /\ sol[a].quality_score >= 70)
             /\ \A emotion_data \in SolEmotions, quality_score \in SolQualities,
                   biometric_hash \in SolHashes :
                    MintBiometricNftErr(sol, a, emotion_data, quality_score, biometric_hash)
                    = (IF quality_score < 70 THEN "LowQualityScore"
                       ELSE IF Len(biometric_hash) # 64 THEN "InvalidBiometricHash"
                       ELSE IF ~SolAllInUnit(emotion_data) THEN "InvalidEmotionData"
                       ELSE "")
             /\ \A emotion_data \in SolEmotions :
                    ~SolAllInUnit(emotion_data)
                    => UpdateEmotionDataErr(sol, a, sol[a].owner, emotion_data)
                       = "InvalidEmotionData")
    /\ [][(result'.op \in {"mint_biometric_nft", "update_emotion_data"} /\ result'.err # "")
          => sol' = sol]_vars
    /\ [][(result'.op = "mint_biometric_nft" /\ result'.err = "") =>
            \E nft_account \in DOMAIN sol, emotion_data \in SolEmotions,
               quality_score \in SolQualities, biometric_hash \in SolHashes,
               cross_chain_id \in SolCrossChainIds :
                /\ SolAllInUnit(emotion_data)
                /\ quality_score >= 70
                /\ Len(biometric_hash) = 64
                /\ mint_biometric_nft(nft_account, sol[nft_account].owner, emotion_data,
                                      quality_score, biometric_hash, cross_chain_id)
         ]_vars

\* A minted account, and a mint with an emotion component out of range has
\* just been refused.
C30_Witness ==
    /\ result.op = "mint_biometric_nft"
    /\ result.err = "InvalidEmotionData"
    /\ \E a \in DOMAIN sol :
          /\ Len(sol[a].biometric_hash) = 64
          /\ sol[a].quality_score = 70
          /\ sol[a].emotion_data.happiness = 100

\* The streams whose counters a step changed.
SolCcCountersChanged ==
    {ds \in DOMAIN solcc.data_streams \cap DOMAIN solcc'.data_streams :
        \/ solcc'.data_streams[ds].processed_packets # solcc.data_streams[ds].processed_packets
        \/ solcc'.data_streams[ds].total_confidence # solcc.data_streams[ds].total_confidence}

\* The packet accounts a step created.
SolCcNewPackets == DOMAIN solcc'.ai_packets \ DOMAIN solcc.ai_packets

\* C31: a successful process_ai_packet adds 1 to the stream's
\* processed_packets and the packet's confidence to its total_confidence; a
\* call with an empty packet id, stream id or data type, a confidence outside
\* 1..100, an inactive stream, another stream id, or a caller that is neither
\* the creator nor an authorized bridge is rejected, and a rejected call
\* changes no account; no other instruction changes the counters; so every
\* stream has processed_packets <= total_confidence <= 100 * processed_packets.
C31_PacketCounters ==
    /\ [](\A ds \in DOMAIN solcc.data_streams :
            /\ solcc.data_streams[ds].processed_packets
                 <= solcc.data_streams[ds].total_confidence
            /\ solcc.data_streams[ds].total_confidence
                 <= 100 * solcc.data_streams[ds].processed_packets)
    /\ [](\A ds \in DOMAIN solcc.data_streams, ai_packet \in SolCcPacketAccounts,
             caller \in SolUsers, authorized_bridges \in SolCcKeyLists,
             packet_id \in SolCcPacketIds, stream_id \in SolCcStreamIds,
             data_type \in SolCcDataTypes, confidence \in SolCcConfidences :
            ( \/ packet_id = ""
              \/ stream_id = ""
              \/ data_type = ""
              \/ confidence < 1
              \/ confidence > 100
              \/ ~solcc.data_streams[ds].active
              \/ solcc.data_streams[ds].stream_id # stream_id
              \/ /\ caller # solcc.data_streams[ds].creator
                 /\ caller \notin Range(authorized_bridges) )
            => SolProcessAiPacketErr(solcc, ds, ai_packet, caller, authorized_bridges,
                                     packet_id, stream_id, data_type, confidence) # "")
    /\ [][ /\ (result'.op = "process_ai_packet" /\ result'.err # "") => solcc' = solcc
           /\ (result'.op = "process_ai_packet" /\ result'.err = "") =>
                 /\ Cardinality(SolCcNewPackets) = 1
                 /\ Cardinality(SolCcCountersChanged) = 1
                 /\ \A ds \in SolCcCountersChanged, pk \in SolCcNewPackets :
                       /\ solcc'.data_streams[ds].stream_id = solcc'.ai_packets[pk].stream_id
                       /\ solcc'.data_streams[ds].processed_packets
                            = solcc.data_streams[ds].processed_packets + 1
                       /\ solcc'.data_streams[ds].total_confidence
                            = solcc.data_streams[ds].total_confidence
                              + solcc'.ai_packets[pk].confidence
           /\ SolCcCountersChanged # {} =>
                 result'.op = "process_ai_packet" /\ result'.err = "" ]_vars

\* A stream that processed two packets, of confidence 1 and 100.
C31_Witness ==
    /\ result.op = "process_ai_packet"
    /\ result.err = ""
    /\ \E ds \in DOMAIN solcc.data_streams :
          /\ solcc.data_streams[ds].processed_packets = 2
          /\ solcc.data_streams[ds].total_confidence = 101

\* C32: nft_mint with the id of an existing token and a quality score of at
\* least 0.7 aborts with "Token already exists" and changes nothing of the
\* contract, whoever calls it and whoever is to receive the token; the hash a
\* token was first minted with is the one hash verify_biometric accepts, then
\* and after every later call.
C32_DuplicateMintKeepsToken ==
    /\ [](\A token_id \in DOMAIN contract.tokens_by_id :
            /\ ContainsKey(contract.biometric_data, token_id)
            /\ Cardinality({h \in SbtHashes : verify_biometric(contract, token_id, h)}) = 1)
    /\ [][ /\ ( /\ result'.op = "nft_mint"
                /\ ContainsKey(contract.tokens_by_id, result'.token_id)
                /\ result'.quality_score >= QUALITY_THRESHOLD )
              => /\ result'.err = "Token already exists"
                 /\ contract' = contract
           /\ \A token_id \in DOMAIN contract.tokens_by_id :
                 /\ ContainsKey(contract'.tokens_by_id, token_id)
                 /\ contract'.tokens_by_id[token_id] = contract.tokens_by_id[token_id]
                 /\ contract'.token_metadata_by_id[token_id]
                      = contract.token_metadata_by_id[token_id]
                 /\ contract'.biometric_data[token_id] = contract.biometric_data[token_id]
                 /\ contract'.emotion_history[token_id] = contract.emotion_history[token_id]
           /\ ( /\ result'.op = "nft_mint"
                /\ result'.err = ""
                /\ ~ContainsKey(contract.tokens_by_id, result'.token_id) )
              => \A h \in SbtHashes :
                    verify_biometric(contract', result'.token_id, h)
                      <=> h = result'.biometric_hash ]_vars

\* A second nft_mint of an existing token, with another hash and for another
\* receiver, has just aborted.
C32_Witness ==
    /\ result.op = "nft_mint"
    /\ result.err = "Token already exists"
    /\ ContainsKey(contract.tokens_by_id, result.token_id)
    /\ result.quality_score >= QUALITY_THRESHOLD
    /\ contract.tokens_by_id[result.token_id].owner_id # result.receiver_id
    /\ ~verify_biometric(contract, result.token_id, result.biometric_hash)

\* C33: a new MultifusionEngine has total_fusions, successful_fusions and
\* failed_fusions at 0 and an empty fusion_history; after any calls of
\* create_session, add_cross_chain_asset and start_fusion, accepted or not,
\* fusion_history is as long as successful_fusions counts,
\* successful_fusions + failed_fusions is at most total_fusions, and no call
\* lowers a counter.
C33_FusionCounters ==
    /\ client.engine.metrics.total_fusions = 0
    /\ client.engine.metrics.successful_fusions = 0
    /\ client.engine.metrics.failed_fusions = 0
    /\ client.engine.fusion_history = << >>
    /\ [](/\ Len(client.engine.fusion_history) = client.engine.metrics.successful_fusions
          /\ client.engine.metrics.successful_fusions + client.engine.metrics.failed_fusions
               <= client.engine.metrics.total_fusions)
    /\ [][ /\ client'.engine.metrics.total_fusions >= client.engine.metrics.total_fusions
           /\ client'.engine.metrics.successful_fusions
                >= client.engine.metrics.successful_fusions
           /\ client'.engine.metrics.failed_fusions >= client.engine.metrics.failed_fusions
           /\ Len(client'.engine.fusion_history) >= Len(client.engine.fusion_history) ]_vars

\* One fusion has succeeded, and a second one has just failed in an outside
\* engine after it was counted.
C33_Witness ==
    /\ result.op = "start_fusion"
    /\ result.err = "engine error"
    /\ client.engine.metrics.total_fusions = 2
    /\ client.engine.metrics.successful_fusions = 1
    /\ Len(client.engine.fusion_history) = 1

====
